---- MODULE Spec2Model ----
(***************************************************************************)
(* RealFakeLPM: the LPM download protocol.  Wire codec (Request, Header,   *)
(* Measurement, Final, Ack, Nak), the server (accept loop, Stop, one       *)
(* handleConnection worker per connection) and the client                  *)
(* (Connect, SendDownloadRequest), over a byte-stream transport.           *)
(***************************************************************************)
EXTENDS Integers, Sequences, FiniteSets, TLC

(***************************************************************************)
(* Bytes and slices.  A Go []byte is a sequence of 0..255; Go index i is   *)
(* TLA+ index i+1.                                                         *)
(***************************************************************************)
STX == 2
ETX == 3
ETB == 23

\* ASCII codes of the letters that occur in the frames.
Ascii ==
  [A |-> 65, C |-> 67, D |-> 68, E |-> 69, F |-> 70, K |-> 75, L |-> 76,
   N |-> 78, O |-> 79, P |-> 80, R |-> 82, T |-> 84, X |-> 88,
   d0 |-> 48, d1 |-> 49, d4 |-> 52]

Min(a, b) == IF a < b THEN a ELSE b

\* data[lo:hi] of Go (0-based, hi exclusive), for 0 <= lo <= hi <= len(data).
Slice(data, lo, hi) == SubSeq(data, lo + 1, hi)

\* n zero bytes: make([]byte, n).
Zeros(n) == [k \in 1..n |-> 0]

\* bytes.IndexByte: 0-based index of the first b in data, -1 when absent.
IndexByte(data, b) ==
  IF \E k \in 1..Len(data) : data[k] = b
  THEN (CHOOSE k \in 1..Len(data) :
           data[k] = b /\ \A j \in 1..(k - 1) : data[j] # b) - 1
  ELSE -1

\* bytes.Contains(data, []byte{b}).
Contains(data, b) == \E k \in 1..Len(data) : data[k] = b

\* var sum uint16; for _, b := range data { sum += uint16(b) }
RECURSIVE SumTo(_, _)
SumTo(data, n) ==
  IF n = 0 THEN 0 ELSE (SumTo(data, n - 1) + data[n]) % 65536

Sum16(data) == SumTo(data, Len(data))

\* binary.BigEndian.PutUint16 / Uint16.
PutUint16BE(v) == <<v \div 256, v % 256>>
Uint16BE(b) == b[1] * 256 + b[2]

(***************************************************************************)
(* Fixed control frames.                                                   *)
(***************************************************************************)
BuildACKResponse ==
  <<STX, Ascii.P, Ascii.C, Ascii.R, Ascii.d0,
    Ascii.A, Ascii.C, Ascii.K, Ascii.d1, Ascii.A, ETX>>

BuildNAKResponse ==
  <<STX, Ascii.P, Ascii.C, Ascii.R, Ascii.d0,
    Ascii.N, Ascii.A, Ascii.K, Ascii.d0, Ascii.F, ETX>>

(***************************************************************************)
(* Request (22 bytes).                                                     *)
(***************************************************************************)
NewRequest ==
  [STX |-> STX,
   Protocol |-> <<Ascii.C, Ascii.d0>>,
   UserCode |-> <<Ascii.d0, Ascii.d0, Ascii.d0, Ascii.d0>>,
   PlantCode |-> <<Ascii.d0, Ascii.d0, Ascii.d0, Ascii.d0>>,
   Command |-> <<Ascii.D, Ascii.T>>,
   BlockSel |-> 8,
   Reserved |-> 0,
   MaxRec |-> <<0, 0, 0, 0>>,
   Checksum |-> <<0, 0>>,
   ETX |-> ETX]

RequestBytes(r) ==
  <<r.STX>> \o r.Protocol \o r.UserCode \o r.PlantCode \o r.Command
    \o <<r.BlockSel, r.Reserved>> \o r.MaxRec \o r.Checksum \o <<r.ETX>>

CalculateRequestChecksum(r) ==
  [r EXCEPT !.Checksum = PutUint16BE(Sum16(Slice(RequestBytes(r), 1, 19)))]

\* The value of a nil *Request.
NoRequest == [NewRequest EXCEPT !.STX = 0, !.ETX = 0]

\* Result of ParseRequest: err = "nil" and the request, or the error.  The
\* slice expression data[stxPos : etxPos+1] panics when etxPos+1 < stxPos
\* (slice bounds out of range); err = "panic" stands for that abort.
ParseRequest(data) ==
  LET stxPos == IndexByte(data, STX)
      etxPos == IndexByte(data, ETX)
  IN IF stxPos = -1 THEN [err |-> "STX not found", req |-> NoRequest]
     ELSE IF etxPos = -1 THEN [err |-> "ETX not found", req |-> NoRequest]
     ELSE IF etxPos + 1 < stxPos THEN [err |-> "panic", req |-> NoRequest]
     ELSE LET framedData == Slice(data, stxPos, etxPos + 1)
          IN IF Len(framedData) # 22
             THEN [err |-> "invalid message length", req |-> NoRequest]
             ELSE LET req == [STX |-> framedData[1],
                              Protocol |-> Slice(framedData, 1, 3),
                              UserCode |-> Slice(framedData, 3, 7),
                              PlantCode |-> Slice(framedData, 7, 11),
                              Command |-> Slice(framedData, 11, 13),
                              BlockSel |-> framedData[14],
                              Reserved |-> framedData[15],
                              MaxRec |-> Slice(framedData, 15, 19),
                              Checksum |-> Slice(framedData, 19, 21),
                              ETX |-> framedData[22]]
                  IN IF Uint16BE(req.Checksum) # Sum16(Slice(framedData, 1, 19))
                     THEN [err |-> "invalid checksum", req |-> NoRequest]
                     ELSE [err |-> "nil", req |-> req]

(***************************************************************************)
(* Header (35 bytes).                                                      *)
(***************************************************************************)
NewHeader ==
  [STX |-> STX,
   Computer |-> <<Ascii.P, Ascii.C>>,
   IntestationBlock |-> <<Ascii.D, Ascii.d0>>,
   Model |-> <<Ascii.L, Ascii.d0>>,
   UserCode |-> <<Ascii.d0, Ascii.d0, Ascii.d0, Ascii.d0>>,
   PlantCode |-> <<Ascii.d0, Ascii.d0, Ascii.d0, Ascii.d0>>,
   Day |-> <<0, 0>>,
   Month |-> <<0, 0>>,
   Year |-> <<0, 0, 0, 0>>,
   Hour |-> <<0, 0>>,
   Minute |-> <<0, 0>>,
   RAM |-> 0,
   SWVersion |-> <<0, 0, 0, 0>>,
   Checksum |-> <<0, 0>>,
   ETB |-> ETB]

\* The value of a nil *Header.
NoHeader == [NewHeader EXCEPT !.STX = 0, !.ETB = 0]

\* The number as a plain binary byte, not BCD.
intToBCDBinary(n) == <<n % 256>>

\* byte((n/10)<<4 | (n%10)) as a one-byte slice; the two operands of | have
\* no bit in common (n%10 < 16), so | is +.
intToBCD(n) == << (((n \div 10) * 16) + (n % 10)) % 256 >>

\* copy(dst[:], src): src over the first len(src) bytes of dst.
Copy(dst, src) ==
  [k \in 1..Len(dst) |-> IF k <= Len(src) THEN src[k] ELSE dst[k]]

\* The 31 bytes Computer..SWVersion in wire order.
HeaderBody(h) ==
  h.Computer \o h.IntestationBlock \o h.Model \o h.UserCode \o h.PlantCode
    \o h.Day \o h.Month \o h.Year \o h.Hour \o h.Minute \o <<h.RAM>>
    \o h.SWVersion

CalculateHeaderChecksum(h) ==
  [h EXCEPT !.Checksum = PutUint16BE(Sum16(HeaderBody(h)))]

\* A header builder that copies the Request's BlockSel into RAM.
BuildHeaderResponseBlockSel(req, now) ==
  LET h0 == [NewHeader EXCEPT
               !.UserCode = Copy(@, req.UserCode),
               !.PlantCode = Copy(@, req.PlantCode),
               !.Day = Copy(@, intToBCD(now.Day)),
               !.Month = Copy(@, intToBCD(now.Month)),
               !.Year = Copy(@, intToBCD(now.Year % 100)),
               !.Hour = Copy(@, intToBCD(now.Hour)),
               !.Minute = Copy(@, intToBCD(now.Minute)),
               !.RAM = req.BlockSel,
               !.SWVersion = Copy(@, <<1, 2, 3, 4>>)]
      header == CalculateHeaderChecksum(h0)
  IN <<header.STX>> \o HeaderBody(header)
       \o PutUint16BE(Uint16BE(header.Checksum)) \o <<header.ETB>>

\* now: the server's local time, [Day, Month, Year, Hour, Minute].
BuildHeaderResponse(req, now) ==
  LET h0 == [NewHeader EXCEPT
               !.UserCode = Copy(@, req.UserCode),
               !.PlantCode = Copy(@, req.PlantCode),
               !.Day = Copy(@, intToBCD(now.Day)),
               !.Month = Copy(@, intToBCD(now.Month)),
               !.Year = Copy(@, intToBCD(now.Year % 100)),
               !.Hour = Copy(@, intToBCD(now.Hour)),
               !.Minute = Copy(@, intToBCD(now.Minute)),
               !.RAM = 1,
               !.SWVersion = Copy(@, <<1, 2, 3, 4>>)]
      header == CalculateHeaderChecksum(h0)
  IN <<header.STX>> \o HeaderBody(header)
       \o PutUint16BE(Uint16BE(header.Checksum)) \o <<header.ETB>>

ParseHeader(data) ==
  IF Len(data) # 35
  THEN [err |-> "header block must be exactly 35 bytes", header |-> NoHeader]
  ELSE IF data[1] # STX \/ data[35] # ETB
  THEN [err |-> "invalid frame markers", header |-> NoHeader]
  ELSE IF Sum16(Slice(data, 1, 32)) # Uint16BE(Slice(data, 32, 34))
  THEN [err |-> "invalid checksum", header |-> NoHeader]
  ELSE [err |-> "nil",
        header |-> [STX |-> data[1],
                    Computer |-> Slice(data, 1, 3),
                    IntestationBlock |-> Slice(data, 3, 5),
                    Model |-> Slice(data, 5, 7),
                    UserCode |-> Slice(data, 7, 11),
                    PlantCode |-> Slice(data, 11, 15),
                    Day |-> Slice(data, 15, 17),
                    Month |-> Slice(data, 17, 19),
                    Year |-> Slice(data, 19, 23),
                    Hour |-> Slice(data, 23, 25),
                    Minute |-> Slice(data, 25, 27),
                    RAM |-> data[28],
                    SWVersion |-> Slice(data, 28, 32),
                    Checksum |-> Slice(data, 32, 34),
                    ETB |-> data[35]]]

(***************************************************************************)
(* Measurement (56 bytes).                                                 *)
(***************************************************************************)
NewMeasurement ==
  [STX |-> STX,
   Computer |-> <<Ascii.P, Ascii.C>>,
   BlockType |-> <<Ascii.D, Ascii.d4>>,
   Data |-> Zeros(48),
   Checksum |-> <<0, 0>>,
   ETB |-> ETB]

\* binary.LittleEndian.PutUint16 of uint16(v).
PutUint16LE(v) == <<(v % 65536) % 256, (v % 65536) \div 256>>

byteToBCD(value) == ((((value \div 10) * 16) % 256) + (value % 10)) % 256

\* One 11-byte sub-reading: lamp status, voltage, current, powered and lit
\* minutes, power factor and its sign.
SubReading(r) ==
  <<r.lamp>> \o PutUint16LE(18000 + r.voltage) \o PutUint16LE(r.current)
    \o PutUint16LE(r.powered) \o PutUint16LE(r.lit) \o <<r.pf, r.sign>>

\* generateRandomData(t) with the draws of the random generator made
\* explicit: rnd.status, rnd.pole, rnd.mtype, rnd.conv and, for each of the
\* three sub-readings i, rnd.sub[i] (with its harvest minutes).
generateRandomData(t, rnd) ==
  <<rnd.status, t.Year % 100, byteToBCD(t.Month), byteToBCD(t.Day)>>
    \o PutUint16LE(rnd.pole) \o <<rnd.mtype * 7>>
    \o SubReading(rnd.sub[1]) \o SubReading(rnd.sub[2]) \o SubReading(rnd.sub[3])
    \o PutUint16LE(rnd.sub[1].minutes) \o PutUint16LE(rnd.sub[2].minutes)
    \o PutUint16LE(rnd.sub[3].minutes) \o <<rnd.conv, 0>>

\* A checksum over the payload alone, leaving out "PCD4".
CalculateMeasurementChecksumDataOnly(m) ==
  [m EXCEPT !.Checksum = PutUint16BE(Sum16(m.Data))]

CalculateMeasurementChecksum(m) ==
  [m EXCEPT !.Checksum =
     PutUint16BE(Sum16(m.Computer \o m.BlockType \o m.Data))]

NewRandomMeasurement(t, rnd) ==
  CalculateMeasurementChecksum(
    [NewMeasurement EXCEPT !.Data = Copy(@, generateRandomData(t, rnd))])

\* (*Measurement).Bytes: the Checksum field is copied as it is.
MeasurementBytes(m) ==
  <<m.STX>> \o m.Computer \o m.BlockType \o m.Data \o m.Checksum
    \o <<m.ETB>>

\* An encoder that leaves the two checksum bytes out.
measurementToBytesNoChecksum(m) ==
  <<m.STX>> \o m.Computer \o m.BlockType \o m.Data \o <<m.ETB>>

measurementToBytes(m) ==
  <<m.STX>> \o m.Computer \o m.BlockType \o m.Data
    \o PutUint16BE(Uint16BE(m.Checksum)) \o <<m.ETB>>

NoMeasurement == [NewMeasurement EXCEPT !.STX = 0, !.ETB = 0]

\* A parser that copies the fields and never compares the checksum.
ParseMeasurementNoVerify(data) ==
  IF Len(data) # 56
  THEN [err |-> "invalid measurement length", m |-> NoMeasurement]
  ELSE IF data[1] # STX \/ data[56] # ETB
  THEN [err |-> "invalid frame markers", m |-> NoMeasurement]
  ELSE [err |-> "nil",
        m |-> [STX |-> data[1],
               Computer |-> Slice(data, 1, 3),
               BlockType |-> Slice(data, 3, 5),
               Data |-> Slice(data, 5, 53),
               Checksum |-> Slice(data, 53, 55),
               ETB |-> data[56]]]

ParseMeasurement(data) ==
  IF Len(data) # 56
  THEN [err |-> "invalid measurement length", m |-> NoMeasurement]
  ELSE IF data[1] # STX \/ data[56] # ETB
  THEN [err |-> "invalid frame markers", m |-> NoMeasurement]
  ELSE LET m == [STX |-> data[1],
                 Computer |-> Slice(data, 1, 3),
                 BlockType |-> Slice(data, 3, 5),
                 Data |-> Slice(data, 5, 53),
                 Checksum |-> Slice(data, 53, 55),
                 ETB |-> data[56]]
       IN IF Uint16BE(m.Checksum) # Sum16(Slice(data, 1, 53))
          THEN [err |-> "invalid checksum", m |-> NoMeasurement]
          ELSE [err |-> "nil", m |-> m]

(***************************************************************************)
(* Final (11 bytes).                                                       *)
(***************************************************************************)
NewFinal ==
  [STX |-> STX,
   Computer |-> <<Ascii.P, Ascii.C>>,
   EndBlock |-> <<Ascii.D, Ascii.d4>>,
   EndDownload |-> <<Ascii.E, Ascii.O, Ascii.D>>,
   Checksum |-> <<0, 0>>,
   ETX |-> ETX]

CalculateFinalChecksum(f) ==
  [f EXCEPT !.Checksum =
     PutUint16BE(Sum16(f.Computer \o f.EndBlock \o f.EndDownload))]

FinalBytes(f) ==
  <<f.STX>> \o f.Computer \o f.EndBlock \o f.EndDownload \o f.Checksum
    \o <<f.ETX>>

NoFinal == [NewFinal EXCEPT !.STX = 0, !.ETX = 0]

ParseFinal(data) ==
  LET stxPos == IndexByte(data, STX)
      etxPos == IndexByte(data, ETX)
  IN IF stxPos = -1 THEN [err |-> "STX not found", f |-> NoFinal]
     ELSE IF etxPos = -1 THEN [err |-> "ETX not found", f |-> NoFinal]
     ELSE IF etxPos + 1 < stxPos THEN [err |-> "panic", f |-> NoFinal]
     ELSE LET framedData == Slice(data, stxPos, etxPos + 1)
          IN IF Len(framedData) # 11
             THEN [err |-> "invalid final message length", f |-> NoFinal]
             ELSE LET f == [STX |-> framedData[1],
                            Computer |-> Slice(framedData, 1, 3),
                            EndBlock |-> Slice(framedData, 3, 5),
                            EndDownload |-> Slice(framedData, 5, 8),
                            Checksum |-> Slice(framedData, 8, 10),
                            ETX |-> framedData[11]]
                  IN IF Sum16(Slice(framedData, 1, 8)) # Uint16BE(f.Checksum)
                     THEN [err |-> "invalid checksum", f |-> NoFinal]
                     ELSE [err |-> "nil", f |-> f]

(***************************************************************************)
(* Inputs: the server's clock, the draws of the measurement generator and  *)
(* the byte chunks a peer may put on the wire.                             *)
(***************************************************************************)
Times ==
  {[Day |-> 1, Month |-> 1, Year |-> 2000, Hour |-> 0, Minute |-> 0],
   [Day |-> 31, Month |-> 12, Year |-> 2099, Hour |-> 23, Minute |-> 59]}

SubDraw(lamp, voltage, current, powered, lit, pf, sign, minutes) ==
  [lamp |-> lamp, voltage |-> voltage, current |-> current,
   powered |-> powered, lit |-> lit, pf |-> pf, sign |-> sign,
   minutes |-> minutes]

RandDraws ==
  {[status |-> 0, pole |-> 0, mtype |-> 0, conv |-> 0,
    sub |-> <<SubDraw(0, 0, 0, 0, 0, 0, 0, 0),
              SubDraw(0, 0, 0, 0, 0, 0, 0, 0),
              SubDraw(0, 0, 0, 0, 0, 0, 0, 0)>>],
   [status |-> 224, pole |-> 9999, mtype |-> 1, conv |-> 3,
    sub |-> <<SubDraw(255, 6999, 4999, 65535, 65535, 100, 1, 1439),
              SubDraw(1, 2300, 515, 770, 3, 2, 0, 2),
              SubDraw(3, 17, 23, 2, 768, 23, 1, 23)>>]}

\* The Request sent with its Checksum field left as NewRequest returns it.
ClientRequestNoChecksum(isTotal) ==
  [NewRequest EXCEPT !.Command[2] = IF isTotal THEN Ascii.T ELSE Ascii.P]

\* The Request SendDownloadRequest(isTotal) builds and sends.
ClientRequest(isTotal) ==
  CalculateRequestChecksum(
    [NewRequest EXCEPT !.Command[2] = IF isTotal THEN Ascii.T ELSE Ascii.P])

\* A decodable Request whose command is neither DT nor DP.
UnknownCommandRequest ==
  CalculateRequestChecksum([NewRequest EXCEPT !.Command[2] = Ascii.X])

\* Chunks a peer that is not the repository's client may send.
RawChunks ==
  {RequestBytes(ClientRequest(TRUE)),
   RequestBytes(ClientRequest(FALSE)),
   RequestBytes(UnknownCommandRequest),
   RequestBytes(NewRequest),                \* checksum field left 00 00
   BuildACKResponse,
   BuildNAKResponse,
   <<Ascii.A>>,                             \* no marker
   <<STX, Ascii.A>>,                        \* STX only
   <<ETX, STX>>,                            \* ETX right before STX
   <<ETX, Ascii.A, STX>>}                   \* ETX two bytes before STX

(***************************************************************************)
(* State.                                                                  *)
(***************************************************************************)
ConnIds == {1, 2}

\* Bound: calls of SendDownloadRequest a client makes.
MaxCalls == 2

VARIABLES
  rev,          \* revision of handleConnection: "server.go" or "part_001"
  clock,        \* time.Now() on the server: one of Times
  stopChan,     \* s.stopChan: "open" or "closed"
  mu,           \* s.mu: Unlocked, or HeldBy the worker that locked it
  Connections,  \* s.Connections, the keys of the map
  crashed,      \* the server process was aborted by a panic
  start,        \* Start(): [pc, conn]
  stop,         \* Stop(): [pc, calls], pc of the first call and the
                \* number of calls made
  sess,         \* handleConnection(c): [pc, req, n, i]
  sock,         \* server end of c: "none", "backlog", "open", "closed"
  c2s,          \* bytes written by the peer of c, not yet read by the server
  s2c,          \* bytes written by the server on c, not yet read by the peer
  peerKind,     \* "client" (client.Client), "raw" (any other peer), "absent"
  peerClosed,   \* the peer closed its end of c
  cli,          \* client.Client of c and its SendDownloadRequest call
  evs,          \* history: the I/O events of handleConnection(c) since its
                \* last read of the command loop (that read first)
  fault,        \* history: a timeout or I/O error has occurred on c
  codec,        \* a codec call outside any connection: [stage, kind, in,
                \* frame, flip, out]
  wire          \* bytes the peer of c wrote that have not arrived at the
                \* server yet, and the number of frames it wrote:
                \* [bytes, frames]

\* sync.Mutex: unlocked, or held by Start, Stop or handleConnection(c).
Unlocked == <<"free", 0>>
HeldBy(worker, c) == <<worker, c>>

vars ==
  <<wire, codec, rev, clock, stopChan, mu, Connections, crashed, start, stop, sess, sock, c2s,
    s2c, peerKind, peerClosed, cli, evs, fault>>

srvVars == <<stopChan, mu, Connections, crashed, start, stop, sess>>

\* Nothing written by any peer.
NoWire == [c \in ConnIds |-> [bytes |-> <<>>, frames |-> 0]]

NoSession == [pc |-> "none", req |-> NoRequest, n |-> 0, i |-> 0]

\* No codec call in progress.
NoCodec ==
  [stage |-> "none", kind |-> "none", in |-> <<>>, frame |-> <<>>,
   flip |-> <<>>, out |-> <<>>]

\* conn and the state of the current SendDownloadRequest call: its locals,
\* acks (history: Acks sent for measurements) and, once returned, ret.
NewClient ==
  [pc |-> "new", conn |-> "nil", calls |-> 0, isTotal |-> FALSE,
   typeBuf |-> <<>>, messageType |-> "", totalLength |-> 0,
   header |-> NoHeader, measurements |-> <<>>, acks |-> 0,
   ret |-> [isTotal |-> FALSE, header |-> NoHeader, measurements |-> <<>>,
            err |-> "none", acks |-> 0],
   returns |-> <<>>]

InitCommon ==
  /\ rev \in {"server.go", "part_001"}
  /\ clock \in Times
  /\ stopChan = "open"
  /\ mu = Unlocked
  /\ Connections = {}
  /\ crashed = FALSE
  /\ start = [pc |-> "idle", conn |-> 0]
  /\ stop = [pc |-> "idle", calls |-> 0]
  /\ sess = [c \in ConnIds |-> NoSession]
  /\ sock = [c \in ConnIds |-> "none"]
  /\ c2s = [c \in ConnIds |-> <<>>]
  /\ s2c = [c \in ConnIds |-> <<>>]
  /\ peerClosed = [c \in ConnIds |-> FALSE]
  /\ cli = [c \in ConnIds |-> NewClient]
  /\ evs = [c \in ConnIds |-> <<>>]
  /\ fault = [c \in ConnIds |-> FALSE]
  /\ wire = NoWire
  /\ codec = NoCodec

\* One connection, whose peer is the repository's client or any other peer.
Init ==
  /\ InitCommon
  /\ peerKind \in [ConnIds -> {"client", "raw", "absent"}]
  /\ peerKind[1] # "absent"
  /\ peerKind[2] = "absent"

(***************************************************************************)
(* Transport.  A connection is two byte streams.  conn.Read(buf) returns   *)
(* what has arrived, at most len(buf) bytes, and blocks while nothing has  *)
(* arrived and both ends are open; it fails on a closed connection.        *)
(***************************************************************************)
Listening == start.pc \notin {"idle", "returned"} /\ ~crashed

\* The server's conn.Read returns (data or error) rather than blocks.
SrvCanRead(c) == sock[c] # "open" \/ c2s[c] # <<>> \/ peerClosed[c]
SrvReadOk(c) == sock[c] = "open" /\ c2s[c] # <<>>

\* Whether a conn.Write of the server succeeds: never on a connection the
\* server closed, always while both ends are open, either way once the peer
\* has closed its end.
SrvWriteOutcomes(c) ==
  IF sock[c] # "open" THEN {FALSE}
  ELSE IF peerClosed[c] THEN {TRUE, FALSE}
  ELSE {TRUE}

\* The stream after the server wrote frame (ok) or failed to.  A peer that
\* is not the client consumes what it receives at once.
SrvWrite(c, frame, ok) ==
  IF ok /\ peerKind[c] = "client"
  THEN [s2c EXCEPT ![c] = @ \o frame]
  ELSE s2c

Drop(stream, n) == SubSeq(stream, n + 1, Len(stream))

\* The process dies: the operating system closes every socket.
Exit == [c \in ConnIds |-> IF sock[c] = "none" THEN "none" ELSE "closed"]

(***************************************************************************)
(* Server.Start: the accept loop.                                          *)
(***************************************************************************)
StartListen ==
  /\ ~crashed /\ start.pc = "idle"
  /\ start' = [start EXCEPT !.pc = "select"]
  /\ UNCHANGED <<wire, codec, rev, clock, stopChan, mu, Connections, crashed, stop, sess, sock,
                 c2s, s2c, peerKind, peerClosed, cli, evs, fault>>

\* select { case <-s.stopChan: return nil; default: ... }; the deferred
\* ln.Close() resets the connections nobody accepted.
StartSelect ==
  /\ ~crashed /\ start.pc = "select"
  /\ IF stopChan = "closed"
     THEN /\ start' = [start EXCEPT !.pc = "returned"]
          /\ sock' = [c \in ConnIds |->
                        IF sock[c] = "backlog" THEN "closed" ELSE sock[c]]
     ELSE /\ start' = [start EXCEPT !.pc = "accept"]
          /\ sock' = sock
  /\ UNCHANGED <<wire, codec, rev, clock, stopChan, mu, Connections, crashed, stop, sess, c2s,
                 s2c, peerKind, peerClosed, cli, evs, fault>>

StartAccept ==
  /\ ~crashed /\ start.pc = "accept"
  /\ \E c \in ConnIds :
       /\ sock[c] = "backlog"
       /\ sock' = [sock EXCEPT ![c] = "open"]
       /\ start' = [pc |-> "lock", conn |-> c]
  /\ UNCHANGED <<wire, codec, rev, clock, stopChan, mu, Connections, crashed, stop, sess, c2s,
                 s2c, peerKind, peerClosed, cli, evs, fault>>

\* The insert without s.mu.Lock() before it.
StartLockNoMutex ==
  /\ ~crashed /\ start.pc = "lock"
  /\ start' = [start EXCEPT !.pc = "insert"]
  /\ UNCHANGED <<wire, codec, rev, clock, stopChan, mu, Connections, crashed, stop,
                 sess, sock, c2s, s2c, peerKind, peerClosed, cli, evs, fault>>

StartLock ==
  /\ ~crashed /\ start.pc = "lock" /\ mu = Unlocked
  /\ mu' = HeldBy("Start", 0)
  /\ start' = [start EXCEPT !.pc = "insert"]
  /\ UNCHANGED <<wire, codec, rev, clock, stopChan, Connections, crashed, stop, sess, sock, c2s,
                 s2c, peerKind, peerClosed, cli, evs, fault>>

\* The worker spawned at the insert, before the post-accept Ack is written.
StartInsertSpawnFirst ==
  /\ ~crashed /\ start.pc = "insert"
  /\ Connections' = Connections \cup {start.conn}
  /\ mu' = Unlocked
  /\ sess' = [sess EXCEPT ![start.conn] = [NoSession EXCEPT !.pc = "read"]]
  /\ start' = [start EXCEPT !.pc = "writeAck"]
  /\ UNCHANGED <<wire, codec, rev, clock, stopChan, crashed, stop, sock, c2s,
                 s2c, peerKind, peerClosed, cli, evs, fault>>

\* s.Connections[conn] = true; s.mu.Unlock()
StartInsert ==
  /\ ~crashed /\ start.pc = "insert"
  /\ Connections' = Connections \cup {start.conn}
  /\ mu' = Unlocked
  /\ start' = [start EXCEPT !.pc = "writeAck"]
  /\ UNCHANGED <<wire, codec, rev, clock, stopChan, crashed, stop, sess, sock, c2s, s2c,
                 peerKind, peerClosed, cli, evs, fault>>

\* The post-accept Ack; on a failed write conn.Close() and continue.
StartWriteAck ==
  /\ ~crashed /\ start.pc = "writeAck"
  /\ \E ok \in SrvWriteOutcomes(start.conn) :
       /\ s2c' = SrvWrite(start.conn, BuildACKResponse, ok)
       /\ IF ok
          THEN /\ start' = [start EXCEPT !.pc = "spawn"]
               /\ UNCHANGED <<sock, fault>>
          ELSE /\ start' = [start EXCEPT !.pc = "select"]
               /\ sock' = [sock EXCEPT ![start.conn] = "closed"]
               /\ fault' = [fault EXCEPT ![start.conn] = TRUE]
  /\ UNCHANGED <<wire, codec, rev, clock, stopChan, mu, Connections, crashed, stop, sess, c2s,
                 peerKind, peerClosed, cli, evs>>

\* go s.handleConnection(conn)
StartSpawn ==
  /\ ~crashed /\ start.pc = "spawn"
  /\ sess' = [sess EXCEPT ![start.conn] = [NoSession EXCEPT !.pc = "read"]]
  /\ start' = [start EXCEPT !.pc = "select"]
  /\ UNCHANGED <<wire, codec, rev, clock, stopChan, mu, Connections, crashed, stop, sock, c2s,
                 s2c, peerKind, peerClosed, cli, evs, fault>>

(***************************************************************************)
(* Server.Stop.                                                            *)
(***************************************************************************)
StopCloseChan ==
  /\ ~crashed /\ stop.pc = "idle"
  /\ stopChan' = "closed"
  /\ stop' = [stop EXCEPT !.pc = "lock", !.calls = 1]
  /\ UNCHANGED <<wire, codec, rev, clock, mu, Connections, crashed, start, sess, sock, c2s, s2c,
                 peerKind, peerClosed, cli, evs, fault>>

StopLock ==
  /\ ~crashed /\ stop.pc = "lock" /\ mu = Unlocked
  /\ mu' = HeldBy("Stop", 0)
  /\ stop' = [stop EXCEPT !.pc = "closeAll"]
  /\ UNCHANGED <<wire, codec, rev, clock, stopChan, Connections, crashed, start, sess, sock, c2s,
                 s2c, peerKind, peerClosed, cli, evs, fault>>

\* for conn := range s.Connections { conn.Close() }; deferred s.mu.Unlock()
StopCloseAll ==
  /\ ~crashed /\ stop.pc = "closeAll"
  /\ sock' = [c \in ConnIds |->
                IF c \in Connections THEN "closed" ELSE sock[c]]
  /\ mu' = Unlocked
  /\ stop' = [stop EXCEPT !.pc = "done"]
  /\ UNCHANGED <<wire, codec, rev, clock, stopChan, Connections, crashed, start, sess, c2s, s2c,
                 peerKind, peerClosed, cli, evs, fault>>

\* Stop is called again, during or after the first call: close(s.stopChan)
\* of a closed channel panics, which aborts the process before s.mu.Lock().
StopAgain ==
  /\ ~crashed /\ stop.pc # "idle" /\ stop.calls = 1 /\ stopChan = "closed"
  /\ stop' = [stop EXCEPT !.calls = 2]
  /\ crashed' = TRUE
  /\ sock' = Exit
  /\ UNCHANGED <<wire, codec, rev, clock, stopChan, mu, Connections, start,
                 sess, c2s, s2c, peerKind, peerClosed, cli, evs, fault>>

(***************************************************************************)
(* Server.handleConnection(c): one worker per accepted connection.  Each   *)
(* action is one blocking conn.Read or conn.Write with the code that       *)
(* follows it up to the next one.                                          *)
(***************************************************************************)
IsDownload(req) ==
  req.Command \in {<<Ascii.D, Ascii.T>>, <<Ascii.D, Ascii.P>>}

\* Dispatch without the framing test: every chunk that fails to decode is
\* answered.
DispatchNakAlways(r, chunk, p) ==
  IF p.err = "panic"
  THEN [pc |-> "panic", req |-> NoRequest, ev |-> "R:panic"]
  ELSE IF p.err # "nil"
  THEN [pc |-> "sendNak", req |-> NoRequest, ev |-> "R:bad"]
  ELSE IF IsDownload(p.req)
  THEN [pc |-> IF r = "server.go" THEN "sendAck" ELSE "sendHdr",
        req |-> p.req, ev |-> "R:req"]
  ELSE [pc |-> "sendNakCmd", req |-> p.req, ev |-> "R:unk"]

\* The command loop on the chunk buf[:n] it read and on p, the result of
\* ParseRequest(buf[:n]): where it goes next, the request it holds and the
\* event recorded.  r is the revision.
Dispatch(r, chunk, p) ==
  IF p.err = "panic"
  THEN [pc |-> "panic", req |-> NoRequest, ev |-> "R:panic"]
  ELSE IF p.err # "nil"
  THEN IF Contains(chunk, STX) /\ Contains(chunk, ETX)
       THEN [pc |-> "sendNak", req |-> NoRequest, ev |-> "R:bad"]
       ELSE [pc |-> "read", req |-> NoRequest, ev |-> "R:noise"]
  ELSE IF IsDownload(p.req)
  THEN [pc |-> IF r = "server.go" THEN "sendAck" ELSE "sendHdr",
        req |-> p.req, ev |-> "R:req"]
  ELSE [pc |-> "sendNakCmd", req |-> p.req, ev |-> "R:unk"]

\* The read buffers: buf := make([]byte, 2048), ackBuf := make([]byte, 11).
BufLen == 2048
AckBufLen == 11

\* return: the deferred teardown runs next.
Teardown(c) == [NoSession EXCEPT !.pc = "tdLock"]

\* n, err := conn.Read(buf) of the command loop, ParseRequest and the switch.
SessRead(c) ==
  /\ ~crashed /\ sess[c].pc = "read" /\ SrvCanRead(c)
  /\ IF SrvReadOk(c)
     THEN \E chunk \in {SubSeq(c2s[c], 1, Min(BufLen, Len(c2s[c])))} :
          \E p \in {ParseRequest(chunk)} :
          \E d \in {Dispatch(rev, chunk, p)} :
             /\ c2s' = [c2s EXCEPT ![c] = Drop(@, Min(BufLen, Len(@)))]
             /\ sess' = [sess EXCEPT ![c].pc = d.pc, ![c].req = d.req]
             /\ evs' = [evs EXCEPT ![c] = <<d.ev>>]
             /\ crashed' = (d.pc = "panic")
             /\ sock' = IF d.pc = "panic" THEN Exit ELSE sock
             /\ fault' = fault
     ELSE /\ sess' = [sess EXCEPT ![c] = Teardown(c)]
          /\ evs' = [evs EXCEPT ![c] = <<"Rerr">>]
          /\ fault' = [fault EXCEPT ![c] = TRUE]
          /\ UNCHANGED <<c2s, crashed, sock>>
  /\ UNCHANGED <<wire, codec, rev, clock, stopChan, mu, Connections, start, stop, s2c, peerKind,
                 peerClosed, cli>>

\* SessSendNak with a return after the Nak.
SessSendNakReturn(c) ==
  /\ ~crashed /\ sess[c].pc \in {"sendNak", "sendNakCmd"}
  /\ \E ok \in SrvWriteOutcomes(c) :
       /\ s2c' = SrvWrite(c, BuildNAKResponse, ok)
       /\ evs' = [evs EXCEPT ![c] = Append(@, IF ok THEN "W:Nak" ELSE "Werr")]
       /\ fault' = [fault EXCEPT ![c] = @ \/ ~ok]
  /\ sess' = [sess EXCEPT ![c] = Teardown(c)]
  /\ UNCHANGED <<wire, codec, rev, clock, stopChan, mu, Connections, crashed, start, stop, sock,
                 c2s, peerKind, peerClosed, cli>>

\* conn.Write(BuildNAKResponse()): a failed write is logged, the loop goes on.
SessSendNak(c) ==
  /\ ~crashed /\ sess[c].pc \in {"sendNak", "sendNakCmd"}
  /\ \E ok \in SrvWriteOutcomes(c) :
       /\ s2c' = SrvWrite(c, BuildNAKResponse, ok)
       /\ evs' = [evs EXCEPT ![c] = Append(@, IF ok THEN "W:Nak" ELSE "Werr")]
       /\ fault' = [fault EXCEPT ![c] = @ \/ ~ok]
  /\ sess' = [sess EXCEPT ![c] = [NoSession EXCEPT !.pc = "read"]]
  /\ UNCHANGED <<wire, codec, rev, clock, stopChan, mu, Connections, crashed, start, stop, sock,
                 c2s, peerKind, peerClosed, cli>>

\* A conn.Write of the download: frame, then pc next, or return on error.
SessWrite(c, frame, ev, next) ==
  \E ok \in SrvWriteOutcomes(c) :
    /\ s2c' = SrvWrite(c, frame, ok)
    /\ evs' = [evs EXCEPT ![c] = Append(@, IF ok THEN ev ELSE "Werr")]
    /\ fault' = [fault EXCEPT ![c] = @ \/ ~ok]
    /\ sess' = [sess EXCEPT ![c] =
                  IF ~ok THEN Teardown(c)
                  ELSE IF next = "read" THEN [NoSession EXCEPT !.pc = "read"]
                  ELSE [sess[c] EXCEPT !.pc = next]]

\* server.go: conn.Write(BuildACKResponse()) of case "DT" / case "DP".
SessSendAck(c) ==
  /\ ~crashed /\ sess[c].pc = "sendAck"
  /\ SessWrite(c, BuildACKResponse, "W:Ack", "sendHdr")
  /\ UNCHANGED <<wire, codec, rev, clock, stopChan, mu, Connections, crashed, start, stop, sock,
                 c2s, peerKind, peerClosed, cli>>

\* SessSendHeader without the wait for the client's reply.
SessSendHeaderNoWait(c) ==
  /\ ~crashed /\ sess[c].pc = "sendHdr"
  /\ SessWrite(c, BuildHeaderResponse(sess[c].req, clock), "W:Hdr",
               IF rev = "server.go" THEN "read" ELSE "sendMeas")
  /\ UNCHANGED <<wire, codec, rev, clock, stopChan, mu, Connections, crashed, start, stop, sock,
                 c2s, peerKind, peerClosed, cli>>

\* conn.Write(BuildIntestationResponse(req)) in server.go, which then goes
\* back to the command loop; conn.Write(BuildHeaderResponse(s, req)) in
\* part_001, which then waits for the client's reply.
SessSendHeader(c) ==
  /\ ~crashed /\ sess[c].pc = "sendHdr"
  /\ SessWrite(c, BuildHeaderResponse(sess[c].req, clock), "W:Hdr",
               IF rev = "server.go" THEN "read" ELSE "readHdrAck")
  /\ UNCHANGED <<wire, codec, rev, clock, stopChan, mu, Connections, crashed, start, stop, sock,
                 c2s, peerKind, peerClosed, cli>>

\* 3 + rand.Intn(8)
MinMeasurements == 3
RandSpan == 8
NumMeasurements == {MinMeasurements + k : k \in 0..(RandSpan - 1)}

\* conn.Read(ackBuf) after the Header (no deadline), then numMeasurements.
SessReadHeaderAck(c) ==
  /\ ~crashed /\ sess[c].pc = "readHdrAck" /\ SrvCanRead(c)
  /\ IF SrvReadOk(c)
     THEN /\ c2s' = [c2s EXCEPT ![c] = Drop(@, Min(AckBufLen, Len(@)))]
          /\ \E n \in NumMeasurements :
               sess' = [sess EXCEPT ![c].pc = "sendMeas", ![c].n = n,
                                    ![c].i = 0]
          /\ evs' = [evs EXCEPT ![c] = Append(@, "R")]
          /\ fault' = fault
     ELSE /\ sess' = [sess EXCEPT ![c] = Teardown(c)]
          /\ evs' = [evs EXCEPT ![c] = Append(@, "Rerr")]
          /\ fault' = [fault EXCEPT ![c] = TRUE]
          /\ c2s' = c2s
  /\ UNCHANGED <<wire, codec, rev, clock, stopChan, mu, Connections, crashed, start, stop, sock,
                 s2c, peerKind, peerClosed, cli>>

\* SessSendMeasurement without the wait for the client's reply.
SessSendMeasurementNoWait(c) ==
  /\ ~crashed /\ sess[c].pc = "sendMeas"
  /\ \E rnd \in RandDraws :
       SessWrite(c, measurementToBytes(NewRandomMeasurement(clock, rnd)),
                 "W:Meas", "sendMeas")
  /\ UNCHANGED <<wire, codec, rev, clock, stopChan, mu, Connections, crashed, start, stop, sock,
                 c2s, peerKind, peerClosed, cli>>

\* conn.Write(measurementToBytes(NewRandomMeasurement()))
SessSendMeasurement(c) ==
  /\ ~crashed /\ sess[c].pc = "sendMeas"
  /\ \E rnd \in RandDraws :
       SessWrite(c, measurementToBytes(NewRandomMeasurement(clock, rnd)),
                 "W:Meas", "readMeasAck")
  /\ UNCHANGED <<wire, codec, rev, clock, stopChan, mu, Connections, crashed, start, stop, sock,
                 c2s, peerKind, peerClosed, cli>>

\* Loop control that sends measurement i again after its reply.
AfterMeasAckRetransmit(s) == [s EXCEPT !.pc = "sendMeas"]

\* Loop control after the reply to measurement i was read: i++, i < n.
AfterMeasAck(s) ==
  [s EXCEPT !.i = s.i + 1,
            !.pc = IF s.i + 1 < s.n THEN "sendMeas" ELSE "sendFinal"]

\* conn.Read(ackBuf) under the 5 s read deadline: data arrived, or the
\* connection failed.
SessReadMeasAck(c) ==
  /\ ~crashed /\ sess[c].pc = "readMeasAck" /\ SrvCanRead(c)
  /\ IF SrvReadOk(c)
     THEN /\ c2s' = [c2s EXCEPT ![c] = Drop(@, Min(AckBufLen, Len(@)))]
          /\ sess' = [sess EXCEPT ![c] = AfterMeasAck(@)]
          /\ evs' = [evs EXCEPT ![c] = Append(@, "R")]
          /\ fault' = fault
     ELSE /\ sess' = [sess EXCEPT ![c] = Teardown(c)]
          /\ evs' = [evs EXCEPT ![c] = Append(@, "Rerr")]
          /\ fault' = [fault EXCEPT ![c] = TRUE]
          /\ c2s' = c2s
  /\ UNCHANGED <<wire, codec, rev, clock, stopChan, mu, Connections, crashed, start, stop, sock,
                 s2c, peerKind, peerClosed, cli>>

\* SessAckTimeout with the error ignored: the loop goes on.
SessAckTimeoutContinue(c) ==
  /\ ~crashed /\ sess[c].pc = "readMeasAck" /\ ~SrvCanRead(c)
  /\ sess' = [sess EXCEPT ![c] = AfterMeasAck(@)]
  /\ evs' = [evs EXCEPT ![c] = Append(@, "Tmo")]
  /\ fault' = [fault EXCEPT ![c] = TRUE]
  /\ UNCHANGED <<wire, codec, rev, clock, stopChan, mu, Connections, crashed, start, stop, sock,
                 c2s, s2c, peerKind, peerClosed, cli>>

\* The 5 s deadline passes with nothing to read: conn.Read fails.
SessAckTimeout(c) ==
  /\ ~crashed /\ sess[c].pc = "readMeasAck" /\ ~SrvCanRead(c)
  /\ sess' = [sess EXCEPT ![c] = Teardown(c)]
  /\ evs' = [evs EXCEPT ![c] = Append(@, "Tmo")]
  /\ fault' = [fault EXCEPT ![c] = TRUE]
  /\ UNCHANGED <<wire, codec, rev, clock, stopChan, mu, Connections, crashed, start, stop, sock,
                 c2s, s2c, peerKind, peerClosed, cli>>

\* A return after the Final.
AfterFinalReturn == "tdLock"

\* After the Final the switch ends and the for loop continues.
AfterFinal == "read"

\* conn.Write(final.Bytes())
SessSendFinal(c) ==
  /\ ~crashed /\ sess[c].pc = "sendFinal"
  /\ SessWrite(c, FinalBytes(CalculateFinalChecksum(NewFinal)), "W:Final",
               AfterFinal)
  /\ UNCHANGED <<wire, codec, rev, clock, stopChan, mu, Connections, crashed, start, stop, sock,
                 c2s, peerKind, peerClosed, cli>>

\* The deferred function: s.mu.Lock()
SessTeardownLock(c) ==
  /\ ~crashed /\ sess[c].pc = "tdLock" /\ mu = Unlocked
  /\ mu' = HeldBy("handleConnection", c)
  /\ sess' = [sess EXCEPT ![c].pc = "tdDelete"]
  /\ UNCHANGED <<wire, codec, rev, clock, stopChan, Connections, crashed, start, stop, sock, c2s,
                 s2c, peerKind, peerClosed, cli, evs, fault>>

\* delete(s.Connections, conn); s.mu.Unlock()
SessTeardownDelete(c) ==
  /\ ~crashed /\ sess[c].pc = "tdDelete"
  /\ Connections' = Connections \ {c}
  /\ mu' = Unlocked
  /\ sess' = [sess EXCEPT ![c].pc = "tdClose"]
  /\ UNCHANGED <<wire, codec, rev, clock, stopChan, crashed, start, stop, sock, c2s, s2c,
                 peerKind, peerClosed, cli, evs, fault>>

\* conn.Close()
SessTeardownClose(c) ==
  /\ ~crashed /\ sess[c].pc = "tdClose"
  /\ sock' = [sock EXCEPT ![c] = "closed"]
  /\ sess' = [sess EXCEPT ![c].pc = "done"]
  /\ UNCHANGED <<wire, codec, rev, clock, stopChan, mu, Connections, crashed, start, stop, c2s,
                 s2c, peerKind, peerClosed, cli, evs, fault>>

(***************************************************************************)
(* A peer that is not the repository's client: it dials, sends chunks of   *)
(* its choice (one at a time: the next once the server has read the last)  *)
(* and may close.                                                          *)
(***************************************************************************)
RawDial(c) ==
  /\ peerKind[c] = "raw" /\ sock[c] = "none" /\ Listening
  /\ sock' = [sock EXCEPT ![c] = "backlog"]
  /\ UNCHANGED <<wire, codec, rev, clock, stopChan, mu, Connections, crashed, start, stop, sess,
                 c2s, s2c, peerKind, peerClosed, cli, evs, fault>>

RawSendOf(c, chunks) ==
  /\ peerKind[c] = "raw" /\ sock[c] \in {"backlog", "open"}
  /\ ~peerClosed[c] /\ c2s[c] = <<>>
  /\ \E chunk \in chunks : c2s' = [c2s EXCEPT ![c] = chunk]
  /\ UNCHANGED <<wire, codec, rev, clock, stopChan, mu, Connections, crashed, start, stop, sess,
                 sock, s2c, peerKind, peerClosed, cli, evs, fault>>

RawSend(c) == RawSendOf(c, RawChunks)

\* A peer that asks for a download and answers with a frame the server
\* does not decode, or not at all.
DownloadChunks == {RequestBytes(ClientRequest(TRUE)), BuildNAKResponse}

DownloadSend(c) == RawSendOf(c, DownloadChunks)

RawClose(c) ==
  /\ peerKind[c] = "raw" /\ sock[c] # "none" /\ ~peerClosed[c]
  /\ peerClosed' = [peerClosed EXCEPT ![c] = TRUE]
  /\ UNCHANGED <<wire, codec, rev, clock, stopChan, mu, Connections, crashed, start, stop, sess,
                 sock, c2s, s2c, peerKind, cli, evs, fault>>

(***************************************************************************)
(* client.Client: Connect, SendDownloadRequest, Close.                     *)
(***************************************************************************)
\* Whether a conn.Write of the client succeeds: never on a connection it
\* closed itself, either way once the server has closed its end.
CliWriteOutcomes(c) ==
  IF peerClosed[c] THEN {FALSE}
  ELSE IF sock[c] = "closed" THEN {TRUE, FALSE}
  ELSE {TRUE}

\* Bytes written to a connection the server has closed are lost; a device
\* reads what it receives at once.
CliWrite(c, frame, ok) ==
  IF ok /\ sock[c] # "closed" /\ start.pc # "device"
  THEN [c2s EXCEPT ![c] = @ \o frame]
  ELSE c2s

\* A read of the client fails: the connection is closed on either side and
\* fewer than need bytes are left.
CliReadFails(c, need) ==
  Len(s2c[c]) < need /\ (peerClosed[c] \/ sock[c] = "closed")

\* A return that hands back no measurement list.
CliReturnNoList(c, h, ms, e) ==
  [NewClient EXCEPT
     !.pc = "idle", !.conn = cli[c].conn, !.calls = cli[c].calls + 1,
     !.ret = [isTotal |-> cli[c].isTotal, header |-> h,
              measurements |-> <<>>, err |-> e, acks |-> cli[c].acks],
     !.returns = Append(cli[c].returns,
                        [isTotal |-> cli[c].isTotal, err |-> e])]

\* return header, measurements, err; returns keeps the kind and the error
\* of every call made on the client so far.
CliReturn(c, h, ms, e) ==
  [NewClient EXCEPT
     !.pc = "idle", !.conn = cli[c].conn, !.calls = cli[c].calls + 1,
     !.ret = [isTotal |-> cli[c].isTotal, header |-> h,
              measurements |-> ms, err |-> e, acks |-> cli[c].acks],
     !.returns = Append(cli[c].returns,
                        [isTotal |-> cli[c].isTotal, err |-> e])]

\* net.Dial in Connect: c.conn = conn on success.
ClientDial(c) ==
  /\ peerKind[c] = "client" /\ cli[c].pc = "new"
  /\ IF Listening
     THEN /\ sock' = [sock EXCEPT ![c] = "backlog"]
          /\ cli' = [cli EXCEPT ![c].pc = "connRead", ![c].conn = "set"]
          /\ fault' = fault
     ELSE /\ cli' = [cli EXCEPT ![c].pc = "idle"]
          /\ fault' = [fault EXCEPT ![c] = TRUE]
          /\ sock' = sock
  /\ UNCHANGED <<wire, codec, rev, clock, stopChan, mu, Connections, crashed, start, stop, sess,
                 c2s, s2c, peerKind, peerClosed, evs>>

\* conn.Read(ack) of Connect (buffer of 2048, no deadline); on error
\* conn.Close() and return, c.conn stays set.
ClientConnectRead(c) ==
  /\ peerKind[c] = "client" /\ cli[c].pc = "connRead"
  /\ s2c[c] # <<>> \/ CliReadFails(c, 1)
  /\ IF s2c[c] # <<>>
     THEN /\ s2c' = [s2c EXCEPT ![c] = Drop(@, Min(BufLen, Len(@)))]
          /\ UNCHANGED <<peerClosed, fault>>
     ELSE /\ peerClosed' = [peerClosed EXCEPT ![c] = TRUE]
          /\ fault' = [fault EXCEPT ![c] = TRUE]
          /\ s2c' = s2c
  /\ cli' = [cli EXCEPT ![c].pc = "idle"]
  /\ UNCHANGED <<wire, codec, rev, clock, stopChan, mu, Connections, crashed, start, stop, sess,
                 sock, c2s, peerKind, evs>>

\* SendDownloadRequest(isTotal) is called: the c.conn == nil check.
ClientCall(c) ==
  /\ peerKind[c] = "client" /\ cli[c].pc = "idle" /\ cli[c].calls < MaxCalls
  /\ \E isTotal \in BOOLEAN :
       cli' = [cli EXCEPT ![c] =
                 IF cli[c].conn = "nil"
                 THEN [CliReturn(c, NoHeader, <<>>, "not connected to server")
                         EXCEPT !.ret.isTotal = isTotal,
                                !.returns =
                                  Append(cli[c].returns,
                                         [isTotal |-> isTotal,
                                          err |-> "not connected to server"])]
                 ELSE [cli[c] EXCEPT !.pc = "sendReq", !.isTotal = isTotal]]
  /\ UNCHANGED <<wire, codec, rev, clock, stopChan, mu, Connections, crashed, start, stop, sess,
                 sock, c2s, s2c, peerKind, peerClosed, evs, fault>>

\* c.conn.Write(request.Bytes())
ClientSendRequest(c) ==
  /\ peerKind[c] = "client" /\ cli[c].pc = "sendReq"
  /\ \E ok \in CliWriteOutcomes(c) :
       /\ c2s' = CliWrite(c, RequestBytes(ClientRequest(cli[c].isTotal)), ok)
       /\ cli' = [cli EXCEPT ![c] =
                    IF ok THEN [cli[c] EXCEPT !.pc = "readAck"]
                    ELSE CliReturn(c, NoHeader, <<>>, "failed to send request")]
       /\ fault' = [fault EXCEPT ![c] = @ \/ ~ok]
  /\ UNCHANGED <<wire, codec, rev, clock, stopChan, mu, Connections, crashed, start, stop, sess,
                 sock, s2c, peerKind, peerClosed, evs>>

\* c.conn.Read(ackBuf), ackBuf of 11 bytes.
ClientReadAck(c) ==
  /\ peerKind[c] = "client" /\ cli[c].pc = "readAck"
  /\ s2c[c] # <<>> \/ CliReadFails(c, 1)
  /\ IF s2c[c] # <<>>
     THEN /\ s2c' = [s2c EXCEPT ![c] = Drop(@, Min(AckBufLen, Len(@)))]
          /\ cli' = [cli EXCEPT ![c].pc = "readHdr"]
          /\ fault' = fault
     ELSE /\ cli' = [cli EXCEPT ![c] =
                       CliReturn(c, NoHeader, <<>>, "failed to read ACK")]
          /\ fault' = [fault EXCEPT ![c] = TRUE]
          /\ s2c' = s2c
  /\ UNCHANGED <<wire, codec, rev, clock, stopChan, mu, Connections, crashed, start, stop, sess,
                 sock, c2s, peerKind, peerClosed, evs>>

HeaderLen == 35

\* headerBuf := make([]byte, 35) after c.conn.Read put data into it.
HeaderBuf(data) == data \o Zeros(HeaderLen - Len(data))

\* c.conn.Read(headerBuf), then ParseHeader(headerBuf).
ClientReadHeader(c) ==
  /\ peerKind[c] = "client" /\ cli[c].pc = "readHdr"
  /\ s2c[c] # <<>> \/ CliReadFails(c, 1)
  /\ IF s2c[c] # <<>>
     THEN LET n == Min(HeaderLen, Len(s2c[c]))
              p == ParseHeader(HeaderBuf(SubSeq(s2c[c], 1, n)))
          IN /\ s2c' = [s2c EXCEPT ![c] = Drop(@, n)]
             /\ cli' = [cli EXCEPT ![c] =
                          IF p.err = "nil"
                          THEN [cli[c] EXCEPT !.pc = "sendHdrAck",
                                              !.header = p.header]
                          ELSE CliReturn(c, NoHeader, <<>>,
                                         "failed to parse header block")]
             /\ fault' = fault
     ELSE /\ cli' = [cli EXCEPT ![c] =
                       CliReturn(c, NoHeader, <<>>,
                                 "failed to read header block")]
          /\ fault' = [fault EXCEPT ![c] = TRUE]
          /\ s2c' = s2c
  /\ UNCHANGED <<wire, codec, rev, clock, stopChan, mu, Connections, crashed, start, stop, sess,
                 sock, c2s, peerKind, peerClosed, evs>>

\* ClientSendAck that writes two Acks where the code writes one.
ClientSendAckTwice(c) ==
  /\ peerKind[c] = "client" /\ cli[c].pc \in {"sendHdrAck", "sendAck"}
  /\ \E ok \in CliWriteOutcomes(c) :
       /\ c2s' = CliWrite(c, BuildACKResponse \o BuildACKResponse, ok)
       /\ cli' = [cli EXCEPT ![c] =
                    IF ok
                    THEN [cli[c] EXCEPT
                            !.pc = "rd1",
                            !.acks = IF cli[c].pc = "sendAck"
                                     THEN @ + 2 ELSE @]
                    ELSE CliReturn(c, cli[c].header, cli[c].measurements,
                                   IF cli[c].pc = "sendAck"
                                   THEN "failed to send ACK"
                                   ELSE "failed to send header ACK")]
       /\ fault' = [fault EXCEPT ![c] = @ \/ ~ok]
  /\ UNCHANGED <<wire, codec, rev, clock, stopChan, mu, Connections, crashed,
                 start, stop, sess, sock, s2c, peerKind, peerClosed, evs>>

\* c.conn.Write(BuildACKResponse()): the Header Ack (pc sendHdrAck) and the
\* Ack after each appended Measurement (pc sendAck).
ClientSendAck(c) ==
  /\ peerKind[c] = "client" /\ cli[c].pc \in {"sendHdrAck", "sendAck"}
  /\ \E ok \in CliWriteOutcomes(c) :
       /\ c2s' = CliWrite(c, BuildACKResponse, ok)
       /\ cli' = [cli EXCEPT ![c] =
                    IF ok
                    THEN [cli[c] EXCEPT
                            !.pc = "rd1",
                            !.acks = IF cli[c].pc = "sendAck"
                                     THEN @ + 1 ELSE @]
                    ELSE CliReturn(c, cli[c].header, cli[c].measurements,
                                   IF cli[c].pc = "sendAck"
                                   THEN "failed to send ACK"
                                   ELSE "failed to send header ACK")]
       /\ fault' = [fault EXCEPT ![c] = @ \/ ~ok]
  /\ UNCHANGED <<wire, codec, rev, clock, stopChan, mu, Connections, crashed, start, stop, sess,
                 sock, s2c, peerKind, peerClosed, evs>>

MeasurementLen == 56

\* The frame-type test with only "PC" compared.
FrameTypeLoose(typeBuf) ==
  IF SubSeq(typeBuf, 1, 2) = <<Ascii.P, Ascii.C>>
  THEN "measurement"
  ELSE "unknown"

\* The frame-type test on the 4 bytes after STX, as the if/else-if chain
\* is written: both conditions compare typeBuf with "PCD4".
FrameType(typeBuf) ==
  IF SubSeq(typeBuf, 1, 3) = <<Ascii.P, Ascii.C, Ascii.D>>
       /\ typeBuf[4] = Ascii.d4
  THEN "measurement"
  ELSE IF typeBuf = <<Ascii.P, Ascii.C, Ascii.D, Ascii.d4>>
  THEN "lookahead"
  ELSE "unknown"

\* ReadFullLen with the STX counted twice in the remaining length.
ReadFullLenShort(k) ==
  CASE k.pc = "rd1" -> 1
    [] k.pc = "rd4" -> 4
    [] k.pc = "rdEod" -> 3
    [] OTHER -> k.totalLength - 2 - Len(k.typeBuf)

\* Bytes the pending io.ReadFull of the receive loop asks for.
ReadFullLen(k) ==
  CASE k.pc = "rd1" -> 1
    [] k.pc = "rd4" -> 4
    [] k.pc = "rdEod" -> 3
    [] OTHER -> k.totalLength - 1 - Len(k.typeBuf)

ReadLoopPcs == {"rd1", "rd4", "rdEod", "rdBody"}

\* The receive loop after an io.ReadFull returned data: the client's next
\* state (a return included).
RecvStep(c, data) ==
  LET k == cli[c]
      fail(e) == CliReturn(c, k.header, k.measurements, e)
  IN CASE k.pc = "rd1" ->
            IF data[1] # STX THEN fail("expected STX")
            ELSE [k EXCEPT !.pc = "rd4"]
       [] k.pc = "rd4" ->
            IF FrameType(data) = "measurement"
            THEN [k EXCEPT !.pc = "rdBody", !.typeBuf = data,
                           !.messageType = "measurement",
                           !.totalLength = MeasurementLen]
            ELSE IF FrameType(data) = "lookahead"
            THEN [k EXCEPT !.pc = "rdEod", !.typeBuf = data]
            ELSE fail("unknown message type")
       [] k.pc = "rdEod" ->
            IF data = <<Ascii.E, Ascii.O, Ascii.D>>
            THEN [k EXCEPT !.pc = "rdBody", !.typeBuf = k.typeBuf \o data,
                           !.messageType = "final", !.totalLength = 10]
            ELSE fail("unexpected message format")
       [] OTHER ->
            LET fullMessage == <<STX>> \o k.typeBuf \o data
            IN IF k.messageType = "measurement"
               THEN LET p == ParseMeasurement(fullMessage)
                    IN IF p.err # "nil"
                       THEN fail("failed to parse measurement")
                       ELSE [k EXCEPT !.pc = "sendAck",
                                      !.measurements = Append(@, p.m)]
               ELSE IF ParseFinal(fullMessage).err # "nil"
                    THEN fail("failed to parse final package")
                    ELSE fail("nil")

\* One io.ReadFull of the receive loop and the code after it.
ClientReadFull(c) ==
  /\ peerKind[c] = "client" /\ cli[c].pc \in ReadLoopPcs
  /\ LET need == ReadFullLen(cli[c])
     IN /\ Len(s2c[c]) >= need \/ CliReadFails(c, need)
        /\ IF Len(s2c[c]) >= need
           THEN /\ s2c' = [s2c EXCEPT ![c] = Drop(@, need)]
                /\ cli' = [cli EXCEPT ![c] =
                             RecvStep(c, SubSeq(s2c[c], 1, need))]
                /\ fault' = fault
           ELSE /\ cli' = [cli EXCEPT ![c] =
                             CliReturn(c, cli[c].header, cli[c].measurements,
                                       "failed to read message")]
                /\ fault' = [fault EXCEPT ![c] = TRUE]
                /\ s2c' = s2c
  /\ UNCHANGED <<wire, codec, rev, clock, stopChan, mu, Connections, crashed, start, stop, sess,
                 sock, c2s, peerKind, peerClosed, evs>>

\* The deadline applied to the Ack read alone: the reads after it wait
\* without one.
ClientTimeoutAckOnly(c) ==
  /\ peerKind[c] = "client"
  /\ cli[c].pc = "readAck"
  /\ cli' = [cli EXCEPT ![c] =
               CliReturn(c, NoHeader, <<>>, "failed to read ACK")]
  /\ fault' = [fault EXCEPT ![c] = TRUE]
  /\ UNCHANGED <<wire, codec, rev, clock, stopChan, mu, Connections, crashed,
                 start, stop, sess, sock, c2s, s2c, peerKind, peerClosed, evs>>

\* The read deadline set before the Ack read (now + c.timeout, c.timeout
\* positive) passes while a read of SendDownloadRequest is pending.
ClientTimeout(c) ==
  /\ peerKind[c] = "client"
  /\ cli[c].pc \in {"readAck", "readHdr"} \cup ReadLoopPcs
  /\ cli' = [cli EXCEPT ![c] =
               IF cli[c].pc \in ReadLoopPcs
               THEN CliReturn(c, cli[c].header, cli[c].measurements,
                              "failed to read message")
               ELSE CliReturn(c, NoHeader, <<>>,
                              IF cli[c].pc = "readAck"
                              THEN "failed to read ACK"
                              ELSE "failed to read header block")]
  /\ fault' = [fault EXCEPT ![c] = TRUE]
  /\ UNCHANGED <<wire, codec, rev, clock, stopChan, mu, Connections, crashed, start, stop, sess,
                 sock, c2s, s2c, peerKind, peerClosed, evs>>

\* Client.Close between calls.
ClientClose(c) ==
  /\ peerKind[c] = "client" /\ cli[c].pc = "idle"
  /\ cli[c].conn # "nil" /\ ~peerClosed[c]
  /\ peerClosed' = [peerClosed EXCEPT ![c] = TRUE]
  /\ UNCHANGED <<wire, codec, rev, clock, stopChan, mu, Connections, crashed, start, stop, sess,
                 sock, c2s, s2c, peerKind, cli, evs, fault>>

(***************************************************************************)
(* An LPM device other than fakelpm.Server at the far end of the client's  *)
(* connection: it listens, sends whole frames of its choice and may close. *)
(* In these runs evs[c] records the frames it sent, in order.              *)
(***************************************************************************)
\* The encoding of a checksummed Measurement with the payload data.
MeasurementFrame(data) ==
  measurementToBytes(
    CalculateMeasurementChecksum([NewMeasurement EXCEPT !.Data = data]))

\* A payload that starts with "EOD".
EodPayload == <<Ascii.E, Ascii.O, Ascii.D>> \o Zeros(45)

FinalFrame == FinalBytes(CalculateFinalChecksum(NewFinal))

\* Frames the device may send: Ack, a Header, Measurements (one whose
\* payload starts with "EOD", one with the checksum left 00 00), the Final
\* and a byte that is no start marker.
DeviceFrames ==
  {BuildACKResponse,
   BuildHeaderResponse(ClientRequest(TRUE), clock),
   MeasurementFrame(EodPayload),
   measurementToBytes(NewMeasurement),
   FinalFrame,
   <<Ascii.A>>}
    \cup {measurementToBytes(NewRandomMeasurement(clock, rnd)) :
            rnd \in RandDraws}

\* Frames the device sends on one connection at most.
MaxFrames == 5

DeviceSendOf(c, frames) ==
  /\ start.pc = "device" /\ peerKind[c] = "client" /\ sock[c] = "backlog"
  /\ s2c[c] = <<>> /\ cli[c].calls = 0 /\ Len(evs[c]) < MaxFrames
  /\ \E frame \in frames :
       /\ s2c' = [s2c EXCEPT ![c] = frame]
       /\ evs' = [evs EXCEPT ![c] = Append(@, frame)]
  /\ UNCHANGED <<wire, codec, rev, clock, stopChan, mu, Connections, crashed, start, stop, sess,
                 sock, c2s, peerKind, peerClosed, cli, fault>>

DeviceSend(c) == DeviceSendOf(c, DeviceFrames)

\* The frames of a download as fakelpm.Server sends them.
DownloadFrames ==
  {BuildACKResponse,
   BuildHeaderResponse(ClientRequest(TRUE), clock),
   MeasurementFrame(Zeros(48)),
   FinalFrame}

\* A device that sends frames of a download, in any order, and may stop
\* sending at any point.
DownloadReply(c) == DeviceSendOf(c, DownloadFrames)

\* The device closes the connection.
DeviceClose(c) ==
  /\ start.pc = "device" /\ sock[c] = "backlog"
  /\ sock' = [sock EXCEPT ![c] = "closed"]
  /\ UNCHANGED <<wire, codec, rev, clock, stopChan, mu, Connections, crashed, start, stop, sess,
                 c2s, s2c, peerKind, peerClosed, cli, evs, fault>>

(***************************************************************************)
(* A peer that follows the protocol over a stream that may fragment: it    *)
(* writes a DT Request, then one Ack for the Header and for each           *)
(* Measurement it has received.  What it writes arrives at the server in   *)
(* one or several pieces.                                                  *)
(***************************************************************************)
RECURSIVE CountTo(_, _, _)
CountTo(q, n, e) ==
  IF n = 0 THEN 0
  ELSE CountTo(q, n - 1, e) + (IF q[n] = e THEN 1 ELSE 0)

\* The number of events e in the history q.
Count(q, e) == CountTo(q, Len(q), e)

\* The frames of the current download the peer is to acknowledge.
FramesToAck(c) == Count(evs[c], "W:Hdr") + Count(evs[c], "W:Meas")

\* The sizes of the pieces the stream delivers (or all that is left).
FragSizes == {5, 11, 22}

PeerWrite(c) ==
  /\ peerKind[c] = "raw" /\ sock[c] \in {"backlog", "open"}
  /\ ~peerClosed[c] /\ wire[c].bytes = <<>>
  /\ IF wire[c].frames = 0
     THEN wire' = [wire EXCEPT ![c] =
                     [bytes |-> RequestBytes(ClientRequest(TRUE)),
                      frames |-> 1]]
     ELSE /\ wire[c].frames - 1 < FramesToAck(c)
          /\ wire' = [wire EXCEPT ![c] =
                        [bytes |-> BuildACKResponse, frames |-> @.frames + 1]]
  /\ UNCHANGED <<codec, rev, clock, stopChan, mu, Connections, crashed, start,
                 stop, sess, sock, c2s, s2c, peerKind, peerClosed, cli, evs,
                 fault>>

\* The next piece of what the peer wrote arrives at the server.
Deliver(c) ==
  /\ wire[c].bytes # <<>> /\ sock[c] \in {"backlog", "open"}
  /\ \E size \in FragSizes :
     \E k \in {Min(size, Len(wire[c].bytes))} :
       /\ c2s' = [c2s EXCEPT ![c] = @ \o SubSeq(wire[c].bytes, 1, k)]
       /\ wire' = [wire EXCEPT ![c].bytes = Drop(@, k)]
  /\ UNCHANGED <<codec, rev, clock, stopChan, mu, Connections, crashed, start,
                 stop, sess, sock, s2c, peerKind, peerClosed, cli, evs, fault>>

\* The peer closes once all it wrote has arrived.
PeerClose(c) == wire[c].bytes = <<>> /\ RawClose(c)

(***************************************************************************)
(* Codec calls outside any connection: fields are encoded, one bit of the  *)
(* frame may be flipped on the way, the frame is parsed.                   *)
(***************************************************************************)
\* Byte values tried in the free fields.
CodecBytes == {0, STX, ETX, Ascii.d0, 255}

CodecRequests ==
  {[NewRequest EXCEPT !.Command[2] = cmd, !.BlockSel = b,
                      !.UserCode[1] = u, !.MaxRec[4] = u] :
     cmd \in {Ascii.T, Ascii.P}, b \in CodecBytes, u \in CodecBytes}

CodecTimes ==
  Times \cup {[Day |-> 9, Month |-> 10, Year |-> 2026, Hour |-> 19,
               Minute |-> 45]}

\* Requests a Header is built for: two contents of UserCode and PlantCode,
\* each with two contents of the other fields.
CodecHeaderRequests ==
  {[r EXCEPT !.UserCode = id.u, !.PlantCode = id.p] :
     r \in {ClientRequest(TRUE),
            [NewRequest EXCEPT !.Command = <<Ascii.X, Ascii.X>>,
                               !.BlockSel = 255, !.Reserved = ETB,
                               !.MaxRec = <<9, 9, 9, 9>>]},
     id \in {[u |-> NewRequest.UserCode, p |-> NewRequest.PlantCode],
             [u |-> <<STX, ETX, ETB, 255>>, p |-> <<255, 0, 1, ETX>>]}}

CodecHeaders ==
  {[req |-> r, now |-> t] : r \in CodecHeaderRequests, t \in CodecTimes}

CodecPayloads ==
  {Zeros(48), EodPayload, [k \in 1..48 |-> 255], [k \in 1..48 |-> ETB]}
    \cup {generateRandomData(t, rnd) : t \in Times, rnd \in RandDraws}

\* The calls: what is encoded, and from which fields.
CodecCalls ==
  {[kind |-> "Request", in |-> r] : r \in CodecRequests}
    \cup {[kind |-> "Header", in |-> h] : h \in CodecHeaders}
    \cup {[kind |-> "Measurement", in |-> d] : d \in CodecPayloads}
    \cup {[kind |-> "Final", in |-> NewFinal]}
    \cup {[kind |-> "BCD", in |-> n] : n \in 0..99}

\* The checksummed struct of a call.
CodecStruct(kind, in) ==
  CASE kind = "Request" -> CalculateRequestChecksum(in)
    [] kind = "Measurement" ->
         CalculateMeasurementChecksum(
           [NewMeasurement EXCEPT !.Data = Copy(@, in)])
    [] kind = "Final" -> CalculateFinalChecksum(in)
    [] OTHER -> in

\* The encodings of a call (a Measurement has two encoders).
CodecEncodings(kind, in) ==
  CASE kind = "Request" -> {RequestBytes(CodecStruct(kind, in))}
    [] kind = "Header" -> {BuildHeaderResponse(in.req, in.now)}
    [] kind = "Measurement" ->
         {MeasurementBytes(CodecStruct(kind, in)),
          measurementToBytes(CodecStruct(kind, in))}
    [] kind = "Final" -> {FinalBytes(CodecStruct(kind, in))}
    [] OTHER -> {intToBCD(in) \o <<byteToBCD(in)>>}

\* data with bit b of data[i] (Go index) inverted.
FlipBit(data, i, b) ==
  [data EXCEPT ![i + 1] =
     IF (@ \div (2 ^ b)) % 2 = 1 THEN @ - (2 ^ b) ELSE @ + (2 ^ b)]

CodecParsed(kind, frame) ==
  CASE kind = "Request" -> ParseRequest(frame)
    [] kind = "Header" -> ParseHeader(frame)
    [] kind = "Measurement" -> ParseMeasurement(frame)
    [] OTHER -> ParseFinal(frame)

connVars ==
  <<wire, rev, clock, stopChan, mu, Connections, crashed, start, stop, sess, sock,
    c2s, s2c, peerKind, peerClosed, cli, evs, fault>>

CodecEncode ==
  /\ codec.stage = "fields"
  /\ \E frame \in CodecEncodings(codec.kind, codec.in) :
       codec' = [codec EXCEPT !.stage = "frame", !.frame = frame]
  /\ UNCHANGED connVars

CodecFlip ==
  /\ codec.stage = "frame" /\ codec.kind # "BCD" /\ codec.flip = <<>>
  /\ \E i \in 0..(Len(codec.frame) - 1), b \in 0..7 :
       codec' = [codec EXCEPT !.frame = FlipBit(@, i, b), !.flip = <<i, b>>]
  /\ UNCHANGED connVars

CodecParse ==
  /\ codec.stage = "frame" /\ codec.kind # "BCD"
  /\ codec' = [codec EXCEPT !.stage = "parsed",
                            !.out = CodecParsed(codec.kind, codec.frame)]
  /\ UNCHANGED connVars

(***************************************************************************)
(* Specifications.                                                         *)
(***************************************************************************)
StartStep ==
  \/ StartListen \/ StartSelect \/ StartAccept \/ StartLock \/ StartInsert
  \/ StartWriteAck \/ StartSpawn

StopStep == StopCloseChan \/ StopLock \/ StopCloseAll

SessStep(c) ==
  \/ SessRead(c) \/ SessSendNak(c) \/ SessSendAck(c) \/ SessSendHeader(c)
  \/ SessReadHeaderAck(c) \/ SessSendMeasurement(c) \/ SessReadMeasAck(c)
  \/ SessAckTimeout(c) \/ SessSendFinal(c)
  \/ SessTeardownLock(c) \/ SessTeardownDelete(c) \/ SessTeardownClose(c)

RawStep(c) == RawDial(c) \/ RawSend(c) \/ RawClose(c)

ClientStep(c) ==
  \/ ClientDial(c) \/ ClientConnectRead(c) \/ ClientCall(c)
  \/ ClientSendRequest(c) \/ ClientReadAck(c) \/ ClientReadHeader(c)
  \/ ClientSendAck(c) \/ ClientReadFull(c) \/ ClientTimeout(c)
  \/ ClientClose(c)

Next ==
  \/ StartStep
  \/ StopStep
  \/ \E c \in ConnIds : SessStep(c) \/ RawStep(c) \/ ClientStep(c)

Spec == Init /\ [][Next]_vars

\* The client against a device.
ClientInit ==
  /\ rev = "part_001"
  /\ clock \in Times
  /\ stopChan = "open"
  /\ mu = Unlocked
  /\ Connections = {}
  /\ crashed = FALSE
  /\ start = [pc |-> "device", conn |-> 0]
  /\ stop = [pc |-> "idle", calls |-> 0]
  /\ sess = [c \in ConnIds |-> NoSession]
  /\ sock = [c \in ConnIds |-> "none"]
  /\ c2s = [c \in ConnIds |-> <<>>]
  /\ s2c = [c \in ConnIds |-> <<>>]
  /\ peerClosed = [c \in ConnIds |-> FALSE]
  /\ cli = [c \in ConnIds |-> NewClient]
  /\ evs = [c \in ConnIds |-> <<>>]
  /\ fault = [c \in ConnIds |-> FALSE]
  /\ wire = NoWire
  /\ codec = NoCodec
  /\ peerKind = [c \in ConnIds |-> IF c = 1 THEN "client" ELSE "absent"]

DeviceStep(c) == DeviceSend(c) \/ DeviceClose(c)

ClientNext == \E c \in ConnIds : ClientStep(c) \/ DeviceStep(c)

ClientSpec == ClientInit /\ [][ClientNext]_vars

\* The client against a device that may fall silent.  The client's
\* goroutine runs whenever it can take a step, and a read deadline that was
\* set passes.
TimeoutNext ==
  \E c \in ConnIds : ClientStep(c) \/ DownloadReply(c) \/ DeviceClose(c)

TimeoutSpec ==
  /\ ClientInit /\ [][TimeoutNext]_vars
  /\ \A c \in ConnIds : WF_vars(ClientStep(c))

\* Codec calls alone.
CodecInit ==
  /\ rev = "part_001"
  /\ clock \in Times
  /\ stopChan = "open"
  /\ mu = Unlocked
  /\ Connections = {}
  /\ crashed = FALSE
  /\ start = [pc |-> "idle", conn |-> 0]
  /\ stop = [pc |-> "idle", calls |-> 0]
  /\ sess = [c \in ConnIds |-> NoSession]
  /\ sock = [c \in ConnIds |-> "none"]
  /\ c2s = [c \in ConnIds |-> <<>>]
  /\ s2c = [c \in ConnIds |-> <<>>]
  /\ peerClosed = [c \in ConnIds |-> FALSE]
  /\ cli = [c \in ConnIds |-> NewClient]
  /\ evs = [c \in ConnIds |-> <<>>]
  /\ fault = [c \in ConnIds |-> FALSE]
  /\ wire = NoWire
  /\ peerKind = [c \in ConnIds |-> "absent"]
  /\ \E call \in CodecCalls :
       codec = [NoCodec EXCEPT !.stage = "fields", !.kind = call.kind,
                               !.in = call.in]

CodecNext == CodecEncode \/ CodecFlip \/ CodecParse

CodecSpec == CodecInit /\ [][CodecNext]_vars

\* Two connections: the peer of the first sends chunks, the peer of the
\* second connects and says nothing; either may close.
RegistryInit ==
  /\ InitCommon
  /\ peerKind = [c \in ConnIds |-> "raw"]

\* What the first peer sends: the chunks of a download, or three bytes with
\* ETX before STX.
RegistryChunks == DownloadChunks \cup {<<ETX, Ascii.A, STX>>}

RegistrySend == RawSendOf(1, RegistryChunks)

RegistryNext ==
  \/ StartStep
  \/ StopStep
  \/ RegistrySend
  \/ \E c \in ConnIds : SessStep(c) \/ RawDial(c) \/ RawClose(c)

RegistrySpec == RegistryInit /\ [][RegistryNext]_vars

\* One connection of a peer that follows the protocol, over a stream that
\* may fragment what it writes.
StreamInit ==
  /\ InitCommon
  /\ peerKind = [c \in ConnIds |-> IF c = 1 THEN "raw" ELSE "absent"]

StreamNext ==
  \/ StartStep
  \/ StopStep
  \/ \E c \in ConnIds :
       SessStep(c) \/ RawDial(c) \/ PeerWrite(c) \/ Deliver(c) \/ PeerClose(c)

StreamSpec == StreamInit /\ [][StreamNext]_vars

\* Decoder calls alone: one of the four Parse functions is called on a byte
\* string that need not be a frame.
DecodeKinds == {"Request", "Header", "Measurement", "Final"}

\* A valid frame of each kind.
DecodeFrames ==
  {RequestBytes(ClientRequest(TRUE)),
   BuildHeaderResponse(ClientRequest(TRUE),
     [Day |-> 1, Month |-> 1, Year |-> 2000, Hour |-> 0, Minute |-> 0]),
   MeasurementFrame(Zeros(48)),
   FinalFrame}

\* What a decoder may be given: the frames, each one also cut short,
\* lengthened, without its first or last byte, with a marker or a checksum
\* byte overwritten, and a few strings of markers alone.
DecodeInputs ==
  UNION {{f,
          Drop(f, 1),
          SubSeq(f, 1, Len(f) - 1),
          SubSeq(f, 2, Len(f) - 1),
          f \o <<0>>,
          <<0>> \o f,
          [f EXCEPT ![1] = 0],
          [f EXCEPT ![Len(f)] = 0],
          [f EXCEPT ![Len(f) - 1] = (@ + 1) % 256],
          [f EXCEPT ![Len(f) - 1] = (@ + 1) % 256] \o <<0>>} :
           f \in DecodeFrames}
    \cup {<<>>, <<Ascii.A>>, <<STX>>, <<ETX>>, <<ETB>>, <<STX, ETX>>,
          <<STX, ETB>>, <<ETX, STX>>, <<ETX, Ascii.A, STX>>}

DecodeInit ==
  /\ rev = "part_001"
  /\ clock \in Times
  /\ stopChan = "open"
  /\ mu = Unlocked
  /\ Connections = {}
  /\ crashed = FALSE
  /\ start = [pc |-> "idle", conn |-> 0]
  /\ stop = [pc |-> "idle", calls |-> 0]
  /\ sess = [c \in ConnIds |-> NoSession]
  /\ sock = [c \in ConnIds |-> "none"]
  /\ c2s = [c \in ConnIds |-> <<>>]
  /\ s2c = [c \in ConnIds |-> <<>>]
  /\ peerClosed = [c \in ConnIds |-> FALSE]
  /\ cli = [c \in ConnIds |-> NewClient]
  /\ evs = [c \in ConnIds |-> <<>>]
  /\ fault = [c \in ConnIds |-> FALSE]
  /\ wire = NoWire
  /\ peerKind = [c \in ConnIds |-> "absent"]
  /\ \E kind \in DecodeKinds, data \in DecodeInputs :
       codec = [NoCodec EXCEPT !.stage = "frame", !.kind = kind,
                               !.frame = data]

DecodeNext == CodecParse

DecodeSpec == DecodeInit /\ [][DecodeNext]_vars

\* One connection of a peer that sends whole frames of a download.  The
\* scheduler runs every goroutine of the server that can take a step, and a
\* Stop that was called runs on; the peer is free to stay silent.
DownloadInit ==
  /\ InitCommon
  /\ peerKind = [c \in ConnIds |-> IF c = 1 THEN "raw" ELSE "absent"]

DownloadNext ==
  \/ StartStep
  \/ StopStep
  \/ \E c \in ConnIds : SessStep(c) \/ RawDial(c) \/ DownloadSend(c) \/ RawClose(c)

FairSpec ==
  /\ DownloadInit /\ [][DownloadNext]_vars
  /\ WF_vars(StartStep)
  /\ WF_vars(StopLock \/ StopCloseAll)
  /\ \A c \in ConnIds : WF_vars(SessStep(c))

\* A download on one connection, with Stop called up to twice.
StopTwiceNext == DownloadNext \/ StopAgain

StopTwiceSpec == DownloadInit /\ [][StopTwiceNext]_vars

(***************************************************************************)
(* Properties.                                                             *)
(***************************************************************************)
Last(q) == q[Len(q)]

\* The chunk the pending read of the command loop returns.
NextChunk(c) == SubSeq(c2s[c], 1, Min(BufLen, Len(c2s[c])))

\* handleConnection(c) reads a chunk in its command loop in this step.
ReadsChunk(c) ==
  /\ sess[c].pc = "read" /\ SrvReadOk(c) /\ ~crashed
  /\ Len(c2s'[c]) < Len(c2s[c])

\* C1: end-to-end handshake.  Whenever SendDownloadRequest(true) has
\* returned on a connection that saw no I/O error and no timeout, it
\* returned no error, the decoded Header and N decoded measurements,
\* 3 <= N <= 10.
C1_Handshake ==
  \A c \in ConnIds :
    (/\ peerKind[c] = "client" /\ cli[c].pc = "idle" /\ cli[c].calls = 1
     /\ cli[c].ret.isTotal /\ cli[c].conn = "set" /\ ~fault[c])
    => /\ cli[c].ret.err = "nil"
       /\ cli[c].ret.header # NoHeader
       /\ Len(cli[c].ret.measurements) \in NumMeasurements

\* C2: on a decodable DT/DP Request the next two I/O operations of the
\* session are the write of the Ack and then the write of the Header (a
\* failed write ends the session); nothing is read and no Measurement is
\* written before them.
C2_AckThenHeader ==
  \A c \in ConnIds :
    (evs[c] # <<>> /\ evs[c][1] = "R:req")
    => /\ Len(evs[c]) >= 2 => evs[c][2] \in {"W:Ack", "Werr"}
       /\ (Len(evs[c]) >= 3 /\ evs[c][2] = "W:Ack")
            => evs[c][3] \in {"W:Hdr", "Werr"}

\* C3: backpressure.  Every write of a Measurement is directly preceded,
\* among the I/O operations of the session, by a successful read (so a read
\* lies between any two Measurement writes), and a successful read of a
\* reply moves the loop on by the count alone, whatever bytes were read.
C3_ReadBeforeMeasurement ==
  \A c \in ConnIds : \A k \in 1..Len(evs[c]) :
    evs[c][k] = "W:Meas" => (k > 1 /\ evs[c][k - 1] = "R")

C3_AnyReply ==
  \A c \in ConnIds :
    (sess[c].pc = "readMeasAck" /\ SrvReadOk(c) /\ sess'[c] # sess[c])
    => /\ sess'[c].i = sess[c].i + 1
       /\ sess'[c].n = sess[c].n
       /\ sess'[c].pc = IF sess'[c].i < sess[c].n THEN "sendMeas"
                        ELSE "sendFinal"

C3_Backpressure == []C3_ReadBeforeMeasurement /\ [][C3_AnyReply]_vars

\* Two Measurements were sent, the replies read in between and after.
C3_Witness ==
  \E c \in ConnIds :
    /\ Len(evs[c]) >= 7
    /\ SubSeq(evs[c], 3, 7) = <<"R", "W:Meas", "R", "W:Meas", "R">>

\* C4: header flow control.  After the Header the next I/O operation of the
\* session is never the write of a Measurement: a read of the client's
\* reply comes first.  The client is about to send, or has sent, its Header
\* Ack only with a Header that ParseHeader accepted.
ValidHeader(h) ==
  /\ h.STX = STX /\ h.ETB = ETB
  /\ Uint16BE(h.Checksum) = Sum16(HeaderBody(h))

C4_HeaderFlowControl ==
  \A c \in ConnIds :
    /\ \A k \in 1..Len(evs[c]) :
         evs[c][k] = "W:Hdr" =>
           /\ k < Len(evs[c]) => evs[c][k + 1] \in {"R", "Rerr"}
           /\ \A j \in (k + 1)..Len(evs[c]) :
                evs[c][j] = "W:Meas" => evs[c][k + 1] = "R"
    /\ cli[c].pc \in {"sendHdrAck", "sendAck"} \cup ReadLoopPcs
         => ValidHeader(cli[c].header)

\* The server sent the first Measurement after reading the reply to the
\* Header.
C4_Witness ==
  \E c \in ConnIds :
    /\ Len(evs[c]) >= 4
    /\ SubSeq(evs[c], 2, 4) = <<"W:Hdr", "R", "W:Meas">>

\* C5: timeout scenario.  Once the wait for the reply to a Measurement has
\* failed (the read deadline passed or the read returned an error), the
\* session performs no further I/O, and handleConnection terminates with
\* the connection removed from Connections and closed.
C5_NoFrameAfterTimeout ==
  \A c \in ConnIds : \A k \in 1..Len(evs[c]) :
    (evs[c][k] \in {"Tmo", "Rerr"} /\ k > 1 /\ evs[c][k - 1] = "W:Meas")
    => /\ k = Len(evs[c])
       /\ sess[c].pc \in {"tdLock", "tdDelete", "tdClose", "done"}

TimedOut(c) ==
  /\ Len(evs[c]) >= 2
  /\ Last(evs[c]) \in {"Tmo", "Rerr"}
  /\ evs[c][Len(evs[c]) - 1] = "W:Meas"

Terminated(c) ==
  sess[c].pc = "done" /\ c \notin Connections /\ sock[c] = "closed"

C5_Timeout ==
  /\ []C5_NoFrameAfterTimeout
  /\ \A c \in ConnIds : TimedOut(c) ~> Terminated(c)

\* The deadline passed in the wait for the reply to a Measurement and the
\* session has terminated.
C5_Witness ==
  \E c \in ConnIds :
    TimedOut(c) /\ Last(evs[c]) = "Tmo" /\ Terminated(c) /\ ~crashed

\* C6: the wait for the client's reply to the Header is bounded: while the
\* session waits for that reply it can always take a step of its own, so a
\* client that stays silent on an open connection cannot keep it waiting.
C6_HeaderAckBounded ==
  \A c \in ConnIds :
    (sess[c].pc = "readHdrAck" /\ ~crashed) => ENABLED SessStep(c)

SendsFinal(c) ==
  /\ sess[c].pc = "sendFinal"
  /\ evs'[c] = Append(evs[c], "W:Final")

C8_Malformed(c) ==
  /\ Contains(NextChunk(c), STX) /\ Contains(NextChunk(c), ETX)
  /\ ParseRequest(NextChunk(c)).err # "nil"

C8_NakOnMalformed ==
  [][\A c \in ConnIds :
       (ReadsChunk(c) /\ C8_Malformed(c))
       => ~crashed' /\ sess'[c].pc = "sendNak"]_vars

\* C9 (as stated): a Nak is the answer only to a chunk with an STX that is
\* followed by an ETX; a chunk without such a span is not answered.
HasSpan(data) ==
  \E i \in 1..Len(data) : \E j \in 1..Len(data) :
    i < j /\ data[i] = STX /\ data[j] = ETX

C9_NakOnlyForSpan ==
  [][\A c \in ConnIds :
       (ReadsChunk(c) /\ ~HasSpan(NextChunk(c)))
       => sess'[c].pc \notin {"sendNak", "sendNakCmd"}]_vars

\* C9 (amended): a Nak is the answer only to a chunk that holds an STX byte
\* and an ETX byte, in either order, and is not a DT/DP Request; a chunk
\* that lacks one of the two markers is not answered at all.
HasMarkers(data) == Contains(data, STX) /\ Contains(data, ETX)

C9_NakSteps ==
  \A c \in ConnIds :
    ReadsChunk(c) =>
      /\ sess'[c].pc \in {"sendNak", "sendNakCmd"}
           => /\ HasMarkers(NextChunk(c))
              /\ ~(ParseRequest(NextChunk(c)).err = "nil"
                   /\ IsDownload(ParseRequest(NextChunk(c)).req))
      /\ ~HasMarkers(NextChunk(c)) => sess'[c].pc = "read"

C9_Silent ==
  \A c \in ConnIds :
    (evs[c] # <<>> /\ evs[c][1] = "R:noise") => evs[c] = <<"R:noise">>

C9_NakOnlyForMarkers == [][C9_NakSteps]_vars /\ []C9_Silent

\* A chunk that did not decode was answered with a Nak.
C9_Witness ==
  \E c \in ConnIds : evs[c] = <<"R:bad", "W:Nak">> /\ sess[c].pc = "read"

\* C10: a Request that decodes and names a command other than DT and DP is
\* answered with one Nak and no other frame; the session is then awaiting a
\* Request again, its connection open and registered as before.
C10_Events ==
  \A c \in ConnIds :
    (evs[c] # <<>> /\ evs[c][1] = "R:unk")
    => /\ evs[c] \in {<<"R:unk">>, <<"R:unk", "W:Nak">>, <<"R:unk", "Werr">>}
       /\ sess[c].pc = IF evs[c] = <<"R:unk">> THEN "sendNakCmd"
                       ELSE "read"

C10_Steps ==
  \A c \in ConnIds :
    /\ (/\ ReadsChunk(c)
        /\ ParseRequest(NextChunk(c)).err = "nil"
        /\ ~IsDownload(ParseRequest(NextChunk(c)).req))
       => evs'[c] = <<"R:unk">>
    /\ (sess[c].pc = "sendNakCmd" /\ sess'[c] # sess[c])
       => /\ sock'[c] = sock[c] /\ Connections' = Connections
          /\ evs'[c] = <<"R:unk", "W:Nak">> =>
               sess'[c] = [NoSession EXCEPT !.pc = "read"]

C10_UnknownCommand == []C10_Events /\ [][C10_Steps]_vars

\* The unknown command was answered with the Nak; the session awaits a
\* Request on the open, registered connection.
C10_Witness ==
  \E c \in ConnIds :
    /\ evs[c] = <<"R:unk", "W:Nak">>
    /\ sess[c].pc = "read" /\ sock[c] = "open" /\ c \in Connections

(***************************************************************************)
(* The client's receive loop (ClientSpec).                                 *)
(***************************************************************************)
\* The bytes the pending io.ReadFull of the receive loop will return.
CliPending(c) == SubSeq(s2c[c], 1, ReadFullLen(cli[c]))

\* An io.ReadFull of the receive loop returns data in this step.
CliReads(c) ==
  /\ peerKind[c] = "client" /\ cli[c].pc \in ReadLoopPcs
  /\ Len(s2c[c]) >= ReadFullLen(cli[c])
  /\ Len(s2c'[c]) < Len(s2c[c])

\* The device has sent, one after the other was consumed, a reply to
\* Connect, a frame read as the Ack, a valid Header and then only valid
\* Measurements; nothing failed or timed out.
InSync(c) ==
  /\ peerKind[c] = "client" /\ ~fault[c]
  /\ Len(evs[c]) >= 3
  /\ Len(evs[c][2]) <= AckBufLen
  /\ ParseHeader(evs[c][3]).err = "nil"

OnlyMeasurements(c, n) ==
  \A k \in 4..n :
    /\ ParseMeasurement(evs[c][k]).err = "nil"
    /\ SubSeq(evs[c][k], 2, 5) = <<Ascii.P, Ascii.C, Ascii.D, Ascii.d4>>

\* C11: frame disambiguation, Final.  While the client reads a true Final
\* frame that follows the Header and valid Measurements, its pending
\* io.ReadFull never asks for more bytes than are left of the 11 bytes of
\* that frame.
C11_FinalIsElevenBytes ==
  \A c \in ConnIds :
    (/\ InSync(c) /\ OnlyMeasurements(c, Len(evs[c]) - 1)
     /\ Len(evs[c]) >= 4 /\ Last(evs[c]) = FinalFrame
     /\ cli[c].calls = 0 /\ cli[c].pc \in ReadLoopPcs)
    => ReadFullLen(cli[c]) <= Len(s2c[c])

\* C12: frame disambiguation, Measurement.  Once every valid Measurement
\* frame the device sent after the Header has been consumed, the client is
\* still in its receive loop and has appended one Measurement per frame;
\* each appended Measurement encodes to the 56 bytes of its frame; and no
\* frame is read as a Final.
C12_Measurement ==
  \A c \in ConnIds :
    /\ (/\ InSync(c) /\ OnlyMeasurements(c, Len(evs[c]))
        /\ Len(evs[c]) >= 4 /\ s2c[c] = <<>>)
       => /\ cli[c].calls = 0 /\ cli[c].pc \in {"sendAck", "rd1"}
          /\ Len(cli[c].measurements) = Len(evs[c]) - 3
    /\ \A k \in 1..Len(cli[c].measurements) :
         measurementToBytes(cli[c].measurements[k]) = evs[c][3 + k]
    /\ \A k \in 1..Len(cli[c].ret.measurements) :
         measurementToBytes(cli[c].ret.measurements[k]) = evs[c][3 + k]
    /\ cli[c].pc = "rdBody" =>
         cli[c].messageType = "measurement"
           /\ cli[c].totalLength = MeasurementLen

\* Two different Measurements were appended and the client goes on.
C12_Witness ==
  \E c \in ConnIds :
    /\ InSync(c) /\ Len(cli[c].measurements) = 2
    /\ cli[c].measurements[1] # cli[c].measurements[2]
    /\ cli[c].pc = "sendAck"

\* C13: a frame of the receive loop whose first byte is not STX, or whose
\* 4 bytes after STX are not "PCD4", makes SendDownloadRequest return an
\* error with the measurements appended so far and no Ack sent for it.
C13_BadPrefix(c) ==
  \/ cli[c].pc = "rd1" /\ CliPending(c) # <<STX>>
  \/ cli[c].pc = "rd4"
       /\ CliPending(c) # <<Ascii.P, Ascii.C, Ascii.D, Ascii.d4>>

C13_FramingError ==
  [][\A c \in ConnIds :
       (CliReads(c) /\ C13_BadPrefix(c))
       => /\ cli'[c].pc = "idle" /\ cli'[c].calls = cli[c].calls + 1
          /\ cli'[c].ret.err \notin {"nil", "none"}
          /\ cli'[c].ret.measurements = cli[c].measurements
          /\ cli'[c].ret.header = cli[c].header
          /\ cli'[c].ret.acks = cli[c].acks
          /\ c2s'[c] = c2s[c]]_vars

\* After one Measurement a frame with another prefix ended the call.
C13_Witness ==
  \E c \in ConnIds :
    /\ cli[c].pc = "idle" /\ cli[c].calls = 1
    /\ cli[c].ret.err = "unknown message type"
    /\ Len(cli[c].ret.measurements) = 1
    /\ cli[c].ret.acks = 1

(***************************************************************************)
(* Codec properties (CodecSpec).                                           *)
(***************************************************************************)
\* The call has parsed the frame exactly as it was encoded.
ParsedIntact(kind) ==
  codec.stage = "parsed" /\ codec.kind = kind /\ codec.flip = <<>>

\* C14: ParseRequest of the bytes of a checksummed Request succeeds and
\* returns the Request field for field, its Checksum being the 16-bit sum
\* of bytes 1..18 of the frame, whatever bytes the fields hold.
C14_RequestRoundTrip ==
  ParsedIntact("Request") =>
    /\ codec.out.err = "nil"
    /\ codec.out.req = CodecStruct("Request", codec.in)
    /\ Uint16BE(codec.out.req.Checksum) = Sum16(Slice(codec.frame, 1, 19))

\* The BCD byte of n as the documents give it.
BcdByte(n) == ((n \div 10) * 16) + (n % 10)

\* The Header the server is expected to send for a request at a time.
ExpectedHeader(req, now) ==
  [STX |-> STX,
   Computer |-> <<Ascii.P, Ascii.C>>,
   IntestationBlock |-> <<Ascii.D, Ascii.d0>>,
   Model |-> <<Ascii.L, Ascii.d0>>,
   UserCode |-> req.UserCode,
   PlantCode |-> req.PlantCode,
   Day |-> <<BcdByte(now.Day), 0>>,
   Month |-> <<BcdByte(now.Month), 0>>,
   Year |-> <<BcdByte(now.Year % 100), 0, 0, 0>>,
   Hour |-> <<BcdByte(now.Hour), 0>>,
   Minute |-> <<BcdByte(now.Minute), 0>>,
   RAM |-> 1,
   SWVersion |-> <<1, 2, 3, 4>>,
   Checksum |-> Slice(codec.frame, 32, 34),
   ETB |-> ETB]

\* C15: ParseMeasurement of the encoding of a checksummed Measurement
\* succeeds and returns its Computer, BlockType, Data and Checksum;
\* ParseHeader of the Header the server builds succeeds, returns every field
\* as it was set, and the Checksum is the 16-bit sum of bytes 1..31.
C15_HeaderMeasurementRoundTrip ==
  /\ ParsedIntact("Measurement") =>
       /\ codec.out.err = "nil"
       /\ codec.out.m.Computer = <<Ascii.P, Ascii.C>>
       /\ codec.out.m.BlockType = <<Ascii.D, Ascii.d4>>
       /\ codec.out.m.Data = codec.in
       /\ Uint16BE(codec.out.m.Checksum)
            = (Ascii.P + Ascii.C + Ascii.D + Ascii.d4
                 + SumTo(codec.in, 48)) % 65536
  /\ ParsedIntact("Header") =>
       /\ codec.out.err = "nil"
       /\ codec.out.header = ExpectedHeader(codec.in.req, codec.in.now)
       /\ Uint16BE(codec.out.header.Checksum)
            = Sum16(Slice(codec.frame, 1, 32))

\* A Header whose UserCode holds marker bytes has been parsed.
C15_Witness ==
  /\ ParsedIntact("Header")
  /\ codec.in.req.UserCode = <<STX, ETX, ETB, 255>>
  /\ codec.out.err = "nil"
  /\ codec.out.header.UserCode = <<STX, ETX, ETB, 255>>

\* The last Go index of the range the checksum of a frame covers (the range
\* starts at index 1).
CoveredTo(kind) ==
  CASE kind = "Request" -> 18
    [] kind = "Header" -> 31
    [] kind = "Measurement" -> 52
    [] OTHER -> 7

\* The frame of the call parses when nothing is flipped.
ValidlyEncoded ==
  \A f \in CodecEncodings(codec.kind, codec.in) :
    CodecParsed(codec.kind, f).err = "nil"

\* One bit of the byte at Go index lo..hi of a validly encoded frame was
\* flipped, and the frame has been parsed.
ParsedFlipped(lo, hi) ==
  /\ codec.stage = "parsed" /\ codec.flip # <<>>
  /\ codec.flip[1] >= lo /\ codec.flip[1] <= hi
  /\ ValidlyEncoded

\* C16: after a single bit flip inside the checksum-covered range of a
\* validly encoded Request, Header, Measurement or Final, the Parse function
\* fails with the checksum-mismatch error.
C16_FlipInsideIsChecksumError ==
  ParsedFlipped(1, CoveredTo(codec.kind)) =>
    codec.out.err = "invalid checksum"

\* One bit of a checksum-field byte (the only bytes that are neither covered
\* nor markers) of a validly encoded frame was flipped before the parse.
ParsedFlippedChecksum ==
  ParsedFlipped(CoveredTo(codec.kind) + 1, CoveredTo(codec.kind) + 2)

\* C17 as stated: a single bit flip in a byte outside the covered range that
\* is not a marker does not make the Parse function fail with a checksum
\* error.
C17_FlipOutsideNoChecksumError ==
  ParsedFlippedChecksum => codec.out.err # "invalid checksum"

\* C17, amended: a single bit flip in a checksum-field byte makes the Parse
\* function fail, with the checksum error, or for a Request or Final whose
\* flipped byte became ETX with the length error.
C17_FlipChecksumFieldFails ==
  ParsedFlippedChecksum =>
    \/ codec.out.err = "invalid checksum"
    \/ /\ codec.frame[codec.flip[1] + 1] = ETX
       /\ \/ codec.kind = "Request" /\ codec.out.err = "invalid message length"
          \/ /\ codec.kind = "Final"
             /\ codec.out.err = "invalid final message length"

\* A Request with one checksum bit flipped was rejected for its checksum.
C17_Witness ==
  /\ ParsedFlippedChecksum
  /\ codec.kind = "Request"
  /\ codec.flip = <<20, 7>>
  /\ codec.out.err = "invalid checksum"

\* The frame of the call is as the encoder returned it.
Encoded(kind) ==
  codec.stage = "frame" /\ codec.kind = kind /\ codec.flip = <<>>

\* The frame is n bytes long, from STX to the end marker.
Framed(n, end) ==
  Len(codec.frame) = n /\ codec.frame[1] = STX /\ codec.frame[n] = end

\* C18: the encoders of Request, Header, Measurement and Final return 22,
\* 35, 56 and 11 bytes for every field content, with STX at index 0 and
\* ETX, ETB, ETB, ETX at the last index.
C18_LengthInvariance ==
  /\ Encoded("Request") => Framed(22, ETX)
  /\ Encoded("Header") => Framed(35, ETB)
  /\ Encoded("Measurement") => Framed(56, ETB)
  /\ Encoded("Final") => Framed(11, ETX)

\* A Measurement whose payload is all end markers has been encoded.
C18_Witness ==
  /\ Encoded("Measurement")
  /\ codec.in = [k \in 1..48 |-> ETB]
  /\ Framed(56, ETB)

\* Nibble decoding of a BCD byte: both nibbles are decimal digits and
\* 10 * high + low is n.
DecodesTo(b, n) ==
  /\ b \div 16 <= 9
  /\ b % 16 <= 9
  /\ 10 * (b \div 16) + (b % 16) = n

\* A Header field holds the BCD byte of n first and zeros after it.
BcdField(field, n) ==
  /\ DecodesTo(field[1], n)
  /\ \A k \in 2..Len(field) : field[k] = 0

\* C19: for n in 0..99 intToBCD(n) and byteToBCD(n) are the one byte
\* (n/10)<<4 | (n%10), which decodes to n; in a Header the byte is the first
\* of the 2-byte day, month, hour and minute and of the 4-byte year, and the
\* rest of each field is zero.
C19_Bcd ==
  /\ Encoded("BCD") =>
       /\ Len(codec.frame) = 2
       /\ codec.frame[1] = codec.frame[2]
       /\ codec.frame[1] = BcdByte(codec.in)
       /\ DecodesTo(codec.frame[1], codec.in)
  /\ Encoded("Header") =>
       /\ BcdField(Slice(codec.frame, 15, 17), codec.in.now.Day)
       /\ BcdField(Slice(codec.frame, 17, 19), codec.in.now.Month)
       /\ BcdField(Slice(codec.frame, 19, 23), codec.in.now.Year % 100)
       /\ BcdField(Slice(codec.frame, 23, 25), codec.in.now.Hour)
       /\ BcdField(Slice(codec.frame, 25, 27), codec.in.now.Minute)

\* 99 has been encoded as 0x99 by both functions.
C19_Witness ==
  Encoded("BCD") /\ codec.in = 99 /\ codec.frame = <<153, 153>>

(***************************************************************************)
(* Shutdown (FairSpec).                                                    *)
(***************************************************************************)
\* No connection the server accepted is still open at its end.
NoneOpen == \A c \in ConnIds : sock[c] # "open"

\* C20: Stop returns, and once Stop has been called every connection that is
\* or later becomes registered is closed by the server: eventually no
\* accepted connection remains open.
C20_ShutdownClosesAll ==
  /\ (stop.pc # "idle") ~> (stop.pc = "done" \/ crashed)
  /\ (stopChan = "closed") ~> NoneOpen

\* The accept loop registers a connection, sends the post-accept Ack or
\* spawns a session worker in this step.
Registers == start.pc = "insert" /\ Connections' # Connections
SendsAcceptAck == start.pc = "writeAck" /\ start'.pc = "spawn"
Spawns == start.pc = "spawn" /\ start'.pc = "select"

\* C21: after Stop has been called the accept loop adds no connection to the
\* registry, sends no post-accept Ack and spawns no session worker.
C21_StopsAccepting ==
  [][stopChan = "closed" => ~(Registers \/ SendsAcceptAck \/ Spawns)]_vars

\* C22: once Stop has been called Start eventually returns, also when no
\* further connection arrives.
C22_StartReturns ==
  (stopChan = "closed") ~> (start.pc = "returned" \/ crashed)

(***************************************************************************)
(* The registry (RegistrySpec).                                            *)
(***************************************************************************)
\* The workers that are at an access to s.Connections: the insert of Start,
\* the loop of Stop, the delete of a teardown.
RegistryAccessors ==
  {w \in {<<"Start", 0>>, <<"Stop", 0>>} \cup
          {<<"handleConnection", c>> : c \in ConnIds} :
     \/ w[1] = "Start" /\ start.pc = "insert"
     \/ w[1] = "Stop" /\ stop.pc = "closeAll"
     \/ w[1] = "handleConnection" /\ sess[w[2]].pc = "tdDelete"}

\* A worker completes its access to s.Connections in this step.
RegistryAccess ==
  \/ Connections' # Connections
  \/ start.pc = "insert" /\ start'.pc # "insert"
  \/ stop.pc = "closeAll" /\ stop'.pc # "closeAll"
  \/ \E c \in ConnIds : sess[c].pc = "tdDelete" /\ sess'[c].pc # "tdDelete"

\* C23: every access to the Connections map (insert, delete, iteration) is
\* made by the holder of the mutex, at most one worker is at an access at a
\* time, and the access ends with the mutex released.
C23_RegistryMutex ==
  /\ [](Cardinality(RegistryAccessors) <= 1)
  /\ [](mu # Unlocked <=> RegistryAccessors = {mu})
  /\ [][RegistryAccess => (mu \in RegistryAccessors /\ mu' = Unlocked)]_vars

\* A teardown is at its delete while Start and Stop wait for the mutex.
C23_Witness ==
  /\ \E c \in ConnIds : sess[c].pc = "tdDelete"
  /\ start.pc = "lock"
  /\ stop.pc = "lock"
  /\ ~crashed

\* Session c ends or goes on with its teardown in this step.
SessionEnds(c) ==
  /\ sess'[c] # sess[c]
  /\ sess'[c].pc \in {"tdLock", "tdDelete", "tdClose", "done", "panic"}

\* Connection d, if registered, stays registered, and open if it was; its
\* session is as it was.
Untouched(d) ==
  /\ d \in Connections => d \in Connections'
  /\ (d \in Connections /\ sock[d] = "open") => sock'[d] = "open"
  /\ sess'[d] = sess[d]

\* C24: when a session ends (completion, timeout, I/O or decode error) only
\* its own connection leaves the registry and is closed; every other
\* connection stays registered and open, its session unchanged.
C24_SessionIsolation ==
  [][\A c \in ConnIds :
       SessionEnds(c) => \A d \in ConnIds \ {c} : Untouched(d)]_vars

(***************************************************************************)
(* Downloads of the client against the server (Spec).                      *)
(***************************************************************************)
\* C25: when the client has made a total and then a partial download on one
\* connection that saw no I/O error and no timeout, both have returned
\* without error, the second with a Header and N measurements, 3 <= N <= 10.
C25_TwoDownloads ==
  \A c \in ConnIds :
    (/\ peerKind[c] = "client" /\ cli[c].pc = "idle" /\ cli[c].conn = "set"
     /\ Len(cli[c].returns) = 2
     /\ cli[c].returns[1].isTotal /\ ~cli[c].returns[2].isTotal
     /\ ~fault[c])
    => /\ cli[c].returns[1].err = "nil"
       /\ cli[c].returns[2].err = "nil"
       /\ cli[c].ret.header # NoHeader
       /\ Len(cli[c].ret.measurements) \in NumMeasurements

(***************************************************************************)
(* Fragmented delivery (StreamSpec).                                       *)
(***************************************************************************)
\* The peer of c has written its Request and nothing else, every byte of it
\* has arrived and has been read, and the connection is up.
RequestConsumed(c) ==
  /\ peerKind[c] = "raw" /\ wire[c] = [bytes |-> <<>>, frames |-> 1]
  /\ c2s[c] = <<>> /\ sock[c] = "open" /\ ~peerClosed[c] /\ ~crashed
  /\ sess[c].pc \notin {"none", "tdLock", "tdDelete", "tdClose", "done"}

\* C26: a valid DT Request that arrives in one or several pieces is decoded
\* from the accumulated bytes and answered as a Request: once the server has
\* read all of it, its session holds the Request.
C26_Reassembly ==
  \A c \in ConnIds : RequestConsumed(c) => evs[c][1] = "R:req"

\* Measurement frames the server has sent in the current download, and the
\* Acks the peer has written for measurements (its first Ack is for the
\* Header).
MeasurementsSent(c) == Count(evs[c], "W:Meas")
MeasurementAcks(c) == IF wire[c].frames > 2 THEN wire[c].frames - 2 ELSE 0

\* C27: with each Ack of the client free to arrive in one or several
\* pieces, the server has sent at most one Measurement more than the client
\* has acknowledged.
C27_OneInFlight ==
  \A c \in ConnIds :
    peerKind[c] = "raw" => MeasurementsSent(c) - MeasurementAcks(c) <= 1

(***************************************************************************)
(* The measurement loop of a download (FairSpec: the peer answers with     *)
(* Naks and Requests, never with an Ack).                                  *)
(***************************************************************************)
\* handleConnection(c) writes a frame, recorded as event e, in this step.
Writes(c, e) == evs'[c] = Append(evs[c], e)

\* N is chosen once, in 3..10, when the reply to the Header has been read.
ChoosesOnce(c) ==
  sess'[c].n # sess[c].n =>
    \/ sess[c].pc = "readHdrAck" /\ sess[c].n = 0 /\ sess'[c].n \in 3..10
    \/ sess'[c].n = 0

\* A Measurement is the next of the N: as many were sent as replies read.
SendsNextMeasurement(c) ==
  Writes(c, "W:Meas") =>
    /\ sess[c].i < sess[c].n
    /\ Count(evs[c], "W:Meas") = sess[c].i
    /\ Count(evs[c], "R") = sess[c].i + 1

\* The Final follows N measurements and a reply to each.
FinalAfterAll(c) ==
  Writes(c, "W:Final") =>
    /\ sess[c].i = sess[c].n /\ sess[c].n \in 3..10
    /\ Count(evs[c], "W:Meas") = sess[c].n
    /\ Count(evs[c], "R") = sess[c].n + 1

\* Nothing is written after the Final of a download.
FinalIsLast(c) ==
  \A k \in 1..Len(evs[c]) : evs[c][k] = "W:Final" => k = Len(evs[c])

\* C28: in one download the server chooses N in 3..10 once, sends each of
\* the N Measurements exactly once whatever the replies are, sends the
\* Final only after N Measurements and a reply to each, and sends no
\* Measurement after the Final.
C28_MeasurementLoop ==
  /\ [](\A c \in ConnIds : FinalIsLast(c))
  /\ [][\A c \in ConnIds :
          ChoosesOnce(c) /\ SendsNextMeasurement(c) /\ FinalAfterAll(c)]_vars

\* A download of three measurements has ended with its Final; every reply
\* the peer gave was a Nak or a piece of a Request.
C28_Witness ==
  \E c \in ConnIds :
    /\ evs[c] # <<>> /\ Last(evs[c]) = "W:Final"
    /\ Count(evs[c], "W:Meas") = 3
    /\ Count(evs[c], "R") = 4
    /\ ~crashed

(***************************************************************************)
(* The Acks of the client (ClientSpec).                                    *)
(***************************************************************************)
\* In the receive loop every appended Measurement has its Ack, but the one
\* appended last while its Ack is still to be written.
AcksFollowAppends(c) ==
  cli[c].pc \in ReadLoopPcs \cup {"sendAck"} =>
    cli[c].acks = Len(cli[c].measurements)
                    - (IF cli[c].pc = "sendAck" THEN 1 ELSE 0)

\* At loop exit the Acks sent are as many as the measurements returned, or
\* one less.
AcksAtExit(c) ==
  (cli[c].pc = "idle" /\ cli[c].calls > 0) =>
    \/ cli[c].ret.acks = Len(cli[c].ret.measurements)
    \/ cli[c].ret.acks = Len(cli[c].ret.measurements) - 1

\* A measurement Ack is written in this step.
AcksMeasurement(c) == cli'[c].acks # cli[c].acks /\ cli'[c].pc # "idle"

\* C29: the client sends exactly one Ack per Measurement it decoded and
\* appended, after appending it, none for a frame that fails to decode and
\* none for the Final; at loop exit the Acks sent equal the length of the
\* returned list or one less.
C29_OneAckPerMeasurement ==
  /\ [](\A c \in ConnIds :
          peerKind[c] = "client" =>
            AcksFollowAppends(c) /\ AcksAtExit(c))
  /\ [][\A c \in ConnIds :
          AcksMeasurement(c) =>
            /\ cli[c].pc = "sendAck"
            /\ cli'[c].acks = cli[c].acks + 1
            /\ cli'[c].acks = Len(cli[c].measurements)
            /\ cli'[c].measurements = cli[c].measurements]_vars

\* A measurement was appended and acknowledged, the next frame failed to
\* decode and the call returned without a second Ack.
C29_Witness ==
  \E c \in ConnIds :
    /\ peerKind[c] = "client" /\ cli[c].pc = "idle" /\ cli[c].calls = 1
    /\ cli[c].ret.err = "failed to parse measurement"
    /\ Len(cli[c].ret.measurements) = 1
    /\ cli[c].ret.acks = 1

\* C30: the Header built for a Request carries its UserCode and PlantCode
\* byte for byte, "PC", "D0", "L0", RAM 01 and SWVersion 01 02 03 04, and
\* no other field of the Request changes any byte of the Header.
C30_HeaderEcho ==
  Encoded("Header") =>
    /\ Slice(codec.frame, 1, 7)
         = <<Ascii.P, Ascii.C, Ascii.D, Ascii.d0, Ascii.L, Ascii.d0>>
    /\ Slice(codec.frame, 7, 11) = codec.in.req.UserCode
    /\ Slice(codec.frame, 11, 15) = codec.in.req.PlantCode
    /\ Slice(codec.frame, 27, 32) = <<1, 1, 2, 3, 4>>
    /\ \A other \in CodecHeaderRequests :
         (/\ other.UserCode = codec.in.req.UserCode
          /\ other.PlantCode = codec.in.req.PlantCode)
         => BuildHeaderResponse(other, codec.in.now) = codec.frame

\* A Header has been built for a Request whose other fields are not the
\* default ones.
C30_Witness ==
  /\ Encoded("Header")
  /\ codec.in.req.BlockSel = 255
  /\ codec.in.req.UserCode = <<STX, ETX, ETB, 255>>
  /\ Slice(codec.frame, 7, 11) = <<STX, ETX, ETB, 255>>

(***************************************************************************)
(* Decoders on arbitrary input (DecodeSpec).                               *)
(***************************************************************************)
\* The end marker of a frame of the kind.
EndMarker(kind) == IF kind \in {"Request", "Final"} THEN ETX ELSE ETB

\* The frame length of the kind.
FrameLen(kind) ==
  CASE kind = "Request" -> 22
    [] kind = "Header" -> HeaderLen
    [] kind = "Measurement" -> MeasurementLen
    [] OTHER -> 11

FramingErrors == {"STX not found", "ETX not found", "invalid frame markers"}

LengthErrors ==
  {"invalid message length", "invalid final message length",
   "header block must be exactly 35 bytes", "invalid measurement length"}

\* The decoder of the kind has returned on an input of its caller's choice.
Decoded == codec.stage = "parsed" /\ codec.in = <<>>

\* The input holds no start marker, or no end marker of the kind.
LacksMarker ==
  ~Contains(codec.frame, STX) \/ ~Contains(codec.frame, EndMarker(codec.kind))

\* The bytes from the first start marker to the first end marker, inclusive,
\* where the end marker does not come first.
Span(data, end) ==
  IF IndexByte(data, end) < IndexByte(data, STX) THEN <<>>
  ELSE Slice(data, IndexByte(data, STX), IndexByte(data, end) + 1)

\* C31: every decoder checks start marker, end marker, length and checksum
\* in that order: an input without the start or the end marker fails with
\* the framing error whatever its length, and an input with both markers
\* and a wrong length fails with the length error whatever its checksum
\* bytes.
C31_DecodeOrder ==
  Decoded =>
    /\ LacksMarker => codec.out.err \in FramingErrors
    /\ (~LacksMarker /\ Len(codec.frame) # FrameLen(codec.kind)
          /\ Len(Span(codec.frame, EndMarker(codec.kind)))
               # FrameLen(codec.kind))
         => codec.out.err \in LengthErrors

(***************************************************************************)
(* Registry and sockets.                                                   *)
(***************************************************************************)
\* The accept loop is between the insert of c and the spawn of its worker.
Accepting(c) == start.conn = c /\ start.pc \in {"insert", "writeAck", "spawn"}

\* handleConnection(c) is running (its deferred teardown included).
WorkerRunning(c) == sess[c].pc \notin {"none", "done"}

\* C32: registry lifetime.  In every reachable state a connection the server
\* has closed, for which no session worker is running and which the accept
\* loop has finished with, is absent from the registry; this covers a
\* connection whose post-accept Ack write failed.
C32_RegistryLifetime ==
  \A c \in ConnIds :
    (/\ ~crashed /\ sock[c] = "closed"
     /\ ~WorkerRunning(c) /\ ~Accepting(c))
    => c \notin Connections

\* The accept loop is about to write the post-accept Ack on c.
StartIo(c) == start.conn = c /\ start.pc = "writeAck"

\* handleConnection(c) is at a conn.Read or a conn.Write.
SessIo(c) ==
  sess[c].pc \in {"read", "sendNak", "sendNakCmd", "sendAck", "sendHdr",
                  "readHdrAck", "sendMeas", "readMeasAck", "sendFinal"}

\* The server reads from or writes to c in this step.
ServerIo(c) ==
  \/ Len(c2s'[c]) < Len(c2s[c])
  \/ Len(s2c'[c]) > Len(s2c[c])
  \/ evs'[c] # evs[c]
  \/ StartIo(c) /\ start' # start

\* From the accept of c to the spawn, handleConnection(c) does not exist.
OneOwner ==
  \A c \in ConnIds :
    (start.conn = c /\ start.pc \in {"lock", "insert", "writeAck", "spawn"})
    => /\ sess[c].pc = "none"
       /\ evs[c] = <<>>
       /\ start.pc # "spawn" => s2c[c] = <<>>

OwnerSteps ==
  \A c \in ConnIds :
    /\ ServerIo(c) =>
         /\ stop' = stop
         /\ \/ StartIo(c) /\ sess[c].pc = "none" /\ sess' = sess
            \/ SessIo(c) /\ ~StartIo(c) /\ start' = start
    /\ (sess[c].pc = "none" /\ sess'[c].pc # "none")
         => start.pc = "spawn" /\ start.conn = c
    /\ (start.conn = c /\ start.pc # "spawn" /\ start'.pc = "spawn")
         => /\ start.pc = "writeAck"
            /\ peerKind[c] = "client" => s2c'[c] = BuildACKResponse
    /\ stop' # stop => UNCHANGED <<s2c, c2s, evs>>

\* C33: socket ownership.  No two workers read or write the same connection
\* concurrently: the accept loop writes the post-accept Ack on a connection
\* before the session worker of that connection exists, that Ack is the
\* first frame the server sends on it, every later read or write is the
\* session worker's, and Stop never reads or writes.
C33_SocketOwnership == []OneOwner /\ [][OwnerSteps]_vars

\* The client of a connection got the Ack from the accept loop and then a
\* Header from the session worker, and Stop has closed the connection.
C33_Witness ==
  \E c \in ConnIds :
    /\ peerKind[c] = "client" /\ stop.pc = "done" /\ sock[c] = "closed"
    /\ Len(evs[c]) >= 3 /\ evs[c][3] = "W:Hdr"
    /\ cli[c].pc = "sendHdrAck"

(***************************************************************************)
(* The client's Request and its calls.                                     *)
(***************************************************************************)
\* The command SendDownloadRequest(isTotal) selects.
SelectedCommand(isTotal) ==
  IF isTotal THEN <<Ascii.D, Ascii.T>> ELSE <<Ascii.D, Ascii.P>>

\* The 22 bytes the client writes for isTotal decode to the Request it
\* built.
RequestDecodes(isTotal) ==
  LET frame == RequestBytes(ClientRequest(isTotal))
      p == ParseRequest(frame)
  IN /\ Len(frame) = 22
     /\ p.err = "nil"
     /\ p.req = ClientRequest(isTotal)
     /\ p.req.Command = SelectedCommand(isTotal)

\* The command loop reads a chunk that is the Request of the client for
\* isTotal, and goes on to answer a download with that command.
AcceptsRequest(c, isTotal) ==
  (ReadsChunk(c) /\ NextChunk(c) = RequestBytes(ClientRequest(isTotal)))
  => /\ sess'[c].pc = IF rev = "server.go" THEN "sendAck" ELSE "sendHdr"
     /\ sess'[c].req.Command = SelectedCommand(isTotal)
     /\ evs'[c] = <<"R:req">>

\* What follows the read of a Request holds no Nak.
NoNakAfterRequest ==
  \A c \in ConnIds :
    (evs[c] # <<>> /\ evs[c][1] = "R:req")
    => /\ Count(evs[c], "W:Nak") = 0
       /\ sess[c].pc \notin {"sendNak", "sendNakCmd"}

InCall(c) ==
  cli[c].pc \in {"sendReq", "readAck", "readHdr", "sendHdrAck", "sendAck"}
                  \cup ReadLoopPcs

\* A read of SendDownloadRequest is pending on the client of c.
InRead(c) == cli[c].pc \in {"readAck", "readHdr"} \cup ReadLoopPcs

\* A call of SendDownloadRequest has returned on the client of c.
Returned(c) == cli[c].pc = "idle" /\ cli[c].calls > 0

\* C35: client termination.  With a positive timeout every read of
\* SendDownloadRequest (request Ack, Header, each read of the measurement
\* loop) is subject to the read deadline, so a call that was started always
\* returns, a result or an error, also when the server stops sending at any
\* point of the exchange.
C35_ClientTerminates ==
  /\ [](\A c \in ConnIds : InRead(c) => ENABLED ClientTimeout(c))
  /\ \A c \in ConnIds : InCall(c) ~> Returned(c)

\* The device fell silent after one Measurement and the call returned with
\* the read error, on a connection that neither side has closed.
C35_Witness ==
  \E c \in ConnIds :
    /\ Returned(c) /\ cli[c].ret.err = "failed to read message"
    /\ Len(cli[c].ret.measurements) = 1
    /\ sock[c] = "backlog" /\ ~peerClosed[c] /\ s2c[c] = <<>>

\* C36: decoding is total.  On every chunk a session can receive, also one
\* with an ETX before the first STX, ParseRequest returns a Request or an
\* error value and does not abort, so that no input on a connection
\* terminates the server.
C36_DecodingTotal ==
  /\ ~crashed
  /\ \A c \in ConnIds :
       (sess[c].pc = "read" /\ SrvReadOk(c))
       => ParseRequest(NextChunk(c)).err # "panic"

\* The frame the receive loop has put together once the pending read of the
\* body returns: fullMessage.
FullMessage(c) == <<STX>> \o cli[c].typeBuf \o CliPending(c)

\* SendDownloadRequest returns on the client of c in this step.
Returns(c) == cli'[c].calls = cli[c].calls + 1

\* The receive loop gets the body of a frame of the type in this step.
ReadsBody(c, type) ==
  CliReads(c) /\ cli[c].pc = "rdBody" /\ cli[c].messageType = type

ReturnSteps(c) ==
  /\ (Returns(c) /\ cli'[c].ret.err = "nil")
       => /\ ReadsBody(c, "final")
          /\ ParseFinal(FullMessage(c)).err = "nil"
  /\ Returns(c) => /\ cli'[c].ret.measurements = cli[c].measurements
                   /\ cli'[c].ret.header = cli[c].header
  /\ (~Returns(c) /\ cli'[c].measurements # cli[c].measurements)
       => /\ ReadsBody(c, "measurement")
          /\ ParseMeasurement(FullMessage(c)).err = "nil"
          /\ cli'[c].measurements
               = Append(cli[c].measurements, ParseMeasurement(FullMessage(c)).m)
  /\ (ReadsBody(c, "measurement")
        /\ ParseMeasurement(FullMessage(c)).err = "nil")
       => /\ ~Returns(c)
          /\ Len(cli'[c].measurements) = Len(cli[c].measurements) + 1

\* A list that is not empty comes with a Header that ParseHeader returned.
HeaderWithList ==
  \A c \in ConnIds :
    /\ cli[c].measurements # <<>> => ValidHeader(cli[c].header)
    /\ cli[c].ret.measurements # <<>> =>
         /\ cli[c].ret.header # NoHeader
         /\ ValidHeader(cli[c].ret.header)

\* C37: SendDownloadRequest returns a nil error only when a Final frame was
\* read and passed ParseFinal; on every return, with or without error, the
\* returned list holds, in arrival order, exactly the Measurement frames
\* that passed ParseMeasurement before the return; and the returned Header
\* is not nil whenever the list is not empty.
C37_ReturnValues ==
  /\ []HeaderWithList
  /\ [][\A c \in ConnIds : ReturnSteps(c)]_vars

\* The call returned an error after two different Measurements: both are in
\* the returned list, in the order the device sent them, with the Header.
C37_Witness ==
  \E c \in ConnIds :
    /\ cli[c].pc = "idle" /\ cli[c].calls = 1
    /\ cli[c].ret.err = "failed to read message"
    /\ Len(cli[c].ret.measurements) = 2
    /\ cli[c].ret.measurements[1] # cli[c].ret.measurements[2]
    /\ \A k \in 1..2 :
         measurementToBytes(cli[c].ret.measurements[k]) = evs[c][3 + k]
    /\ ValidHeader(cli[c].ret.header)

(***************************************************************************)
(* Stop called twice (StopTwiceSpec).                                      *)
(***************************************************************************)
\* C38: Stop is idempotent.  A second call of Stop, after or during the
\* first, completes normally and leaves the server as one call does: the
\* process runs on with the channel closed.
C38_StopIdempotent ==
  stop.calls = 2 => (~crashed /\ stopChan = "closed")

(***************************************************************************)
(* Connect and the calls after it.                                         *)
(***************************************************************************)
\* Connect returns an error in this step: net.Dial failed, or the read of
\* the post-accept Ack failed (no byte was taken from the stream).
ConnectFails(c) ==
  /\ peerKind[c] = "client" /\ cli'[c].pc = "idle"
  /\ \/ cli[c].pc = "new"
     \/ cli[c].pc = "connRead" /\ s2c'[c] = s2c[c]

\* SendDownloadRequest is called on a client without a connection.
CallsUnconnected(c) ==
  cli[c].pc = "idle" /\ cli[c].conn = "nil" /\ cli' # cli

\* C39: client connection state.  SendDownloadRequest on a client that is
\* not connected returns the not-connected error and sends nothing; after a
\* Connect that failed, at the dial or at the read of the post-accept Ack,
\* the client is not connected, so that the next call returns the
\* not-connected error and does not use a closed connection.
C39_ConnectionState ==
  [][\A c \in ConnIds :
       /\ CallsUnconnected(c)
            => /\ cli'[c].pc = "idle"
               /\ cli'[c].ret.err = "not connected to server"
               /\ c2s' = c2s
       /\ ConnectFails(c) => cli'[c].conn = "nil"]_vars

====
